---- MODULE Spec2Model ----
(***************************************************************************)
(* Model of the calorie pipeline of dharness/calories:                     *)
(*   - usdaCache.ts      the sqlite-backed detail cache (DetailCache)      *)
(*   - usdaClient.ts     USDANutritionClient (NutritionSource,             *)
(*                       CalorieResolver, UnitConverter)                   *)
(*   - cli.ts            runOptimizer (ConvergenceLoop)                    *)
(*                                                                         *)
(* Representation.  JavaScript strings that the code trims, lower-cases or *)
(* tests for a prefix are sequences of one-character strings; other       *)
(* strings (titles, change descriptions, tags) are TLA+ strings.  Real     *)
(* numbers are exact fixed-point integers: grams are held in units of      *)
(* 1e-4 g (suffix E4) and calories in units of 1e-6 kcal (suffix E6), so   *)
(* that kcalPer100g / 100 * grams is the integer kcalPer100g * gramsE4.    *)
(* An optional value (null / undefined / a missing row) is a sequence of   *)
(* length 0, a present value v is <<v>>.                                   *)
(***************************************************************************)
EXTENDS Integers, Sequences, FiniteSets, TLC

VARIABLES
    \* ---- usdaCache.ts -------------------------------------------------
    db,          \* module variable `db`: "null" or "open"
    table,       \* rows of usda_cache: fdc_id -> <<>> or <<response_data>>
    \* ---- the process and the upstream API -----------------------------
    entry,       \* which entry point runs: "boot", "server" or "cli"
    fetches,     \* number of USDA food-detail requests issued, per fdcId
    searches,    \* number of USDA search requests issued
    \* ---- concurrent getFoodDetails calls (server requests) ------------
    call,        \* per caller: position and locals of its getFoodDetails
    lastPut,     \* per fdcId: <<>> or <<data>> of the latest setCached call
    \* ---- runOptimizer (cli.ts) ----------------------------------------
    pc,          \* position in runOptimizer
    target,      \* targetCalories (E6)
    recipeJson,  \* current recipe {title, ingredients}
    extracted,   \* the recipe as returned by parseRecipeFromGemini
    changesLog,  \* changesLog
    i,           \* loop counter of the for statement
    total,       \* `total` of runOptimizer (E6)
    lines,       \* `ingredients` of the current iteration (normalized)
    idx,         \* next line of calculateTotalCalories
    acc,         \* `total` local to calculateTotalCalories (E6)
    evals,       \* totals obtained by completed evaluations, in order
    adjusts,     \* number of requestRecipeAdjustment invocations
    payload,     \* <<>> or <<ingredients member of the latest adjustment>>
    gotChanges,  \* some adjustment has returned a non-empty array of changes
    calorieDelta,  \* <<>> or <<`calorieDelta` of the latest requestRecipeAdjustment>>
    result,      \* <<>> or <<returned object>> / <<thrown error>>
    \* ---- one multiSearchFoods call (usdaClient.ts) ---------------------
    queries,         \* `queries`, in the order they were submitted
    searchPromises,  \* `searchPromises`: the state of each searchFoods call
    settled,         \* indices of the searchFoods calls, in completion order
    multi,           \* position and outcome of the multiSearchFoods call
    \* ---- one getCaloriesByFdcId call on an obtained detail -------------
    inQuantity,      \* `quantity`
    inUnit,          \* `unit`
    inFood,          \* `food`, the detail the call obtained
    outCalories,     \* <<>> or <<the value the call returned>>
    \* ---- one getCalories call after another (usdaClient.ts) ------------
    byName,          \* position and locals of the getCalories call
    requests,        \* the requests the current call has sent, in order
    \* ---- one optimizeAgent call (agents/optimizeAgent.ts) --------------
    batch,           \* position and locals of optimizeAgent
    agents,          \* `ingredientDataPromises`: state of each agent call
    traces,          \* `allIngredientTraces`
    output,          \* <<>> or <<the list written to the output file>>
    \* ---- one model call through withRetry (llmClient.ts) ---------------
    retry,           \* position, attempt number and errors of the call
    errorLog,        \* the entries logError has appended to errors.log
    \* ---- EventLogger (utils/eventLogger.ts) ----------------------------
    events,          \* `events` of the EventLogger instance
    eventIdCounter,  \* `eventIdCounter`
    clock,           \* what Date.now() returns
    snapshot,        \* the array the latest getAllEvents call returned
    \* ---- the adjustments of one runOptimizer call (cli.ts) ------------
    adjustments,     \* per requestRecipeAdjustment call: `history`, `changes`
    \* ---- normalizeRecipe on one recipe (cli.ts) ------------------------
    norm,            \* <<>> or <<the recipe given and the list returned>>
    \* ---- ingredientDataAgent calls (agents/ingredientDataAgent.ts) ----
    runs,            \* position and locals of each call, in call order
    \* ---- the client singletons (usdaClient.ts, llmClient.ts, init.ts) -
    clients          \* the two module variables and the latest call

cacheVars == <<db, table>>
netVars   == <<fetches, searches>>
callVars  == <<call, lastPut>>
loopVars  == <<pc, target, recipeJson, extracted, changesLog, i, total, lines,
               idx, acc, evals, adjusts, payload, gotChanges, calorieDelta,
               result>>
searchVars == <<queries, searchPromises, settled, multi>>
unitVars  == <<inQuantity, inUnit, inFood, outCalories>>
resolveVars == <<byName, requests>>
batchVars == <<batch, agents, traces, output>>
retryVars == <<retry, errorLog>>
eventVars == <<events, eventIdCounter, clock, snapshot>>
lastVars  == <<adjustments, norm, runs, clients>>
restVars  == <<resolveVars, batchVars, retryVars, eventVars, lastVars>>
vars      == <<db, table, entry, fetches, searches, call, lastPut, pc, target,
               recipeJson, extracted, changesLog, i, total, lines, idx, acc,
               evals, adjusts, payload, gotChanges, calorieDelta,
               result, queries,
               searchPromises, settled, multi, inQuantity, inUnit, inFood,
               outCalories, byName, requests, batch, agents, traces, output,
               retry, errorLog, events, eventIdCounter, clock, snapshot,
               adjustments, norm, runs, clients>>

----------------------------------------------------------------------------
(* Strings as character sequences.                                          *)

IsWhitespace(c) == c = " "

RECURSIVE trimStart(_)
trimStart(s) ==
    IF s # <<>> /\ IsWhitespace(Head(s)) THEN trimStart(Tail(s)) ELSE s

RECURSIVE trimEnd(_)
trimEnd(s) ==
    IF s # <<>> /\ IsWhitespace(s[Len(s)])
    THEN trimEnd(SubSeq(s, 1, Len(s) - 1))
    ELSE s

\* String.prototype.trim
trim(s) == trimEnd(trimStart(s))

lowerChar(c) ==
    CASE c = "G" -> "g"
      [] c = "K" -> "k"
      [] c = "O" -> "o"
      [] c = "Z" -> "z"
      [] c = "L" -> "l"
      [] c = "B" -> "b"
      [] c = "S" -> "s"
      [] c = "C" -> "c"
      [] c = "U" -> "u"
      [] c = "P" -> "p"
      [] OTHER   -> c

\* String.prototype.toLowerCase
toLowerCase(s) == [k \in 1..Len(s) |-> lowerChar(s[k])]

\* String.prototype.startsWith
startsWith(s, prefix) ==
    Len(s) >= Len(prefix) /\ SubSeq(s, 1, Len(prefix)) = prefix

----------------------------------------------------------------------------
(* Optional values.                                                         *)

None    == <<>>
Some(v) == <<v>>
IsSome(o) == o # <<>>
\* a ?? b
Coalesce(a, b) == IF IsSome(a) THEN a ELSE b

----------------------------------------------------------------------------
(* The USDA FoodData Central service as the code sees it.                   *)

FdcIds == {1, 2}

ENERGY_ID == 1008

sEnergy == <<"E", "n", "e", "r", "g", "y">>
sKcal   == <<"k", "c", "a", "l">>
sCup    == <<"c", "u", "p">>

\* A food nutrient in the flat layout {nutrientId, nutrientName, unitName, value}.
FlatNutrient(id, name, unit, value) ==
    [nutrientId |-> Some(id), nutrientName |-> Some(name),
     unitName |-> Some(unit), value |-> Some(value),
     nutrient |-> None, amount |-> None]

\* A food nutrient in the nested layout {nutrient: {id, name, unitName}, amount}.
NestedNutrient(id, name, unit, amount) ==
    [nutrientId |-> None, nutrientName |-> None, unitName |-> None,
     value |-> None,
     nutrient |-> Some([id |-> Some(id), name |-> Some(name),
                        unitName |-> Some(unit)]),
     amount |-> Some(amount)]

Portion(measure, modifier, gramWeight) ==
    [measureUnit |-> Some([name |-> Some(measure)]),
     modifier |-> Some(modifier), gramWeight |-> Some(gramWeight)]

FoodDetail(id, description, nutrients, portions) ==
    [fdcId |-> id, description |-> description,
     foodNutrients |-> nutrients, foodPortions |-> portions]

\* The records the detail endpoint may answer with for each fdcId.  The
\* upstream record of a food may change between two requests.
DetailA1 == FoodDetail(1, "oil", <<FlatNutrient(ENERGY_ID, sEnergy, sKcal, 100)>>,
                       <<Portion(sCup, <<>>, 200)>>)
DetailA2 == FoodDetail(1, "oil, revised",
                       <<NestedNutrient(ENERGY_ID, sEnergy, sKcal, 100)>>, <<>>)
DetailB1 == FoodDetail(2, "sugar", <<FlatNutrient(2047, sEnergy, sKcal, 50)>>, <<>>)
DetailB2 == FoodDetail(2, "sugar, revised", <<>>, <<>>)

UpstreamDetails(fdcId) ==
    IF fdcId = 1 THEN {DetailA1, DetailA2} ELSE {DetailB1, DetailB2}

\* The names the search endpoint knows, with the fdcId of the first hit.
nameA == <<"a">>
nameB == <<"b">>
nameX == <<"x">>

SearchHit(id, description) == [fdcId |-> id, description |-> description]

\* The hit lists the search endpoint may answer with (limit 1, Foundation).
UpstreamSearch(name) ==
    IF name = nameA THEN {<<SearchHit(Some(1), "oil")>>}
    ELSE IF name = nameB THEN {<<SearchHit(Some(2), "sugar")>>}
    ELSE {<<>>, <<SearchHit(None, "no id")>>}

----------------------------------------------------------------------------
(* usdaCache.ts                                                             *)

\* JSON.stringify of a food detail: the text is modelled by its token list.
JSONstringify(data) ==
    <<"{", data.fdcId, data.description, data.foodNutrients,
      data.foodPortions, "}">>

\* JSON.parse of a text written by JSONstringify.
JSONparse(text) ==
    [fdcId |-> text[2], description |-> text[3],
     foodNutrients |-> text[4], foodPortions |-> text[5]]

EmptyTable == [id \in FdcIds |-> None]

\* getCached(fdcId): null when the database is not open or no row exists.
getCached(dbh, tbl, fdcId) ==
    IF dbh = "null" THEN None
    ELSE IF ~IsSome(tbl[fdcId]) THEN None
    ELSE Some(JSONparse(tbl[fdcId][1]))

\* Variant: a store that keeps one row only and evicts every other fdcId.
setCachedEvicting(dbh, tbl, fdcId, data) ==
    IF dbh = "null" THEN tbl
    ELSE [id \in DOMAIN tbl |->
            IF id = fdcId THEN Some(JSONstringify(data)) ELSE None]

\* Variant: an update that merges into the existing row, keeping its
\* description and replacing the other members.
setCachedMerging(dbh, tbl, fdcId, data) ==
    IF dbh = "null" THEN tbl
    ELSE IF tbl[fdcId] = None
    THEN [tbl EXCEPT ![fdcId] = Some(JSONstringify(data))]
    ELSE [tbl EXCEPT ![fdcId] =
            Some(JSONstringify([data EXCEPT
                     !.description = JSONparse(tbl[fdcId][1]).description]))]

\* setCached(fdcId, data): the table after INSERT OR REPLACE; a no-op when
\* the database is not open.
setCached(dbh, tbl, fdcId, data) ==
    IF dbh = "null" THEN tbl
    ELSE [tbl EXCEPT ![fdcId] = Some(JSONstringify(data))]

----------------------------------------------------------------------------
(* usdaClient.ts: the pure helpers of USDANutritionClient.                  *)

E4 == 100 * 100

\* normalizeUnit: trim, lower-case, strip one trailing "s".
normalizeUnit(unit) ==
    LET t == toLowerCase(trim(unit))
    IN  IF t # <<>> /\ t[Len(t)] = "s" THEN SubSeq(t, 1, Len(t) - 1) ELSE t

\* The `conversions` table of unitToGrams, factors in E4.
conversionKeys ==
    {<<"g">>, <<"g", "r", "a", "m">>, <<"k", "g">>,
     <<"k", "i", "l", "o", "g", "r", "a", "m">>, <<"o", "z">>,
     <<"o", "u", "n", "c", "e">>, <<"l", "b">>, <<"p", "o", "u", "n", "d">>}

conversions(key) ==
    CASE key \in {<<"g">>, <<"g", "r", "a", "m">>} -> 10000
      [] key \in {<<"k", "g">>, <<"k", "i", "l", "o", "g", "r", "a", "m">>} -> 10000000
      [] key \in {<<"o", "z">>, <<"o", "u", "n", "c", "e">>} -> 283495
      [] key \in {<<"l", "b">>, <<"p", "o", "u", "n", "d">>} -> 4535920

\* unitToGrams(quantity, unit) -> [grams, source]
unitToGrams(quantity, unit) ==
    LET normalized == normalizeUnit(unit)
    IN  IF normalized \in conversionKeys
        THEN [grams |-> quantity * conversions(normalized), source |-> "weight"]
        ELSE [grams |-> 0, source |-> "unknown"]

\* Does this portion match the normalized unit (measure unit name or modifier)?
portionMatches(portion, normalized) ==
    LET measureUnit ==
            IF IsSome(portion.measureUnit) /\ IsSome(portion.measureUnit[1].name)
            THEN portion.measureUnit[1].name[1] ELSE <<>>
        modifier == IF IsSome(portion.modifier) THEN portion.modifier[1] ELSE <<>>
    IN  normalizeUnit(measureUnit) = normalized \/ normalizeUnit(modifier) = normalized

\* The loop of gramsFromFoodPortions over portions[k..]: the first matching
\* portion with a truthy gramWeight decides.
RECURSIVE scanPortions(_, _, _, _)
scanPortions(quantity, normalized, portions, k) ==
    IF k > Len(portions) THEN [grams |-> 0, source |-> "unknown"]
    ELSE IF portionMatches(portions[k], normalized)
            /\ IsSome(portions[k].gramWeight)
            /\ portions[k].gramWeight[1] # 0
         THEN [grams |-> quantity * portions[k].gramWeight[1] * E4,
               source |-> "portion"]
         ELSE scanPortions(quantity, normalized, portions, k + 1)

\* gramsFromFoodPortions(quantity, unit, food) -> [grams, source]
gramsFromFoodPortions(quantity, unit, food) ==
    LET normalized == normalizeUnit(unit)
    IN  IF normalized = <<>>
        THEN [grams |-> quantity * E4, source |-> "assumed_grams"]
        ELSE scanPortions(quantity, normalized, food.foodPortions, 1)

\* The loop of extractEnergyKcal over nutrients[k..]: the first nutrient that
\* has id 1008, or unit kcal and a name starting with "Energy", decides.
RECURSIVE scanNutrients(_, _)
scanNutrients(nutrients, k) ==
    IF k > Len(nutrients) THEN 0
    ELSE
      LET n == nutrients[k]
          nested == n.nutrient
          nutrientId ==
              Coalesce(n.nutrientId, IF IsSome(nested) THEN nested[1].id ELSE None)
          nutrientName ==
              Coalesce(Coalesce(n.nutrientName,
                                IF IsSome(nested) THEN nested[1].name ELSE None),
                       Some(<<>>))[1]
          unitName ==
              Coalesce(Coalesce(n.unitName,
                                IF IsSome(nested) THEN nested[1].unitName ELSE None),
                       Some(<<>>))[1]
          value == Coalesce(Coalesce(n.value, n.amount), Some(0))[1]
      IN  IF IsSome(nutrientId) /\ nutrientId[1] = ENERGY_ID THEN value
          ELSE IF toLowerCase(unitName) = sKcal
                  /\ (nutrientName = sEnergy \/ startsWith(nutrientName, sEnergy))
               THEN value
               ELSE scanNutrients(nutrients, k + 1)

\* Variant: the value of the first nutrient, whatever it is.
extractEnergyKcalFirstNutrient(food) ==
    IF food.foodNutrients = <<>> THEN 0
    ELSE Coalesce(Coalesce(food.foodNutrients[1].value,
                           food.foodNutrients[1].amount), Some(0))[1]

\* extractEnergyKcal(food) -> kcal per 100 g
extractEnergyKcal(food) == scanNutrients(food.foodNutrients, 1)

\* Variant: the last fallback replaces the grams and keeps the source.
caloriesFromFoodKeepingSource(quantity, unit, fdcId, food) ==
    LET kcalPer100g == extractEnergyKcal(food)
        g1 == unitToGrams(quantity, unit)
        g2 == IF g1.grams <= 0 THEN gramsFromFoodPortions(quantity, unit, food)
              ELSE g1
        g3 == IF g2.grams <= 0
              THEN [grams |-> quantity * 100 * E4, source |-> g2.source]
              ELSE g2
    IN  [calories |-> kcalPer100g * g3.grams,
         meta |-> [fdcId |-> fdcId, description |-> food.description,
                   kcal_per_100g |-> kcalPer100g, grams |-> g3.grams,
                   gram_source |-> g3.source]]

\* Variant: the calories are taken from the quantity as if it were grams.
caloriesFromFoodByQuantity(quantity, unit, fdcId, food) ==
    LET kcalPer100g == extractEnergyKcal(food)
        g1 == unitToGrams(quantity, unit)
        g2 == IF g1.grams <= 0 THEN gramsFromFoodPortions(quantity, unit, food)
              ELSE g1
        g3 == IF g2.grams <= 0
              THEN [grams |-> quantity * 100 * E4, source |-> "fallback_100g"]
              ELSE g2
    IN  [calories |-> kcalPer100g * quantity * E4,
         meta |-> [fdcId |-> fdcId, description |-> food.description,
                   kcal_per_100g |-> kcalPer100g, grams |-> g3.grams,
                   gram_source |-> g3.source]]

\* getCaloriesByFdcId after the detail `food` has been obtained.
caloriesFromFood(quantity, unit, fdcId, food) ==
    LET kcalPer100g == extractEnergyKcal(food)
        g1 == unitToGrams(quantity, unit)
        g2 == IF g1.grams <= 0 THEN gramsFromFoodPortions(quantity, unit, food)
              ELSE g1
        g3 == IF g2.grams <= 0
              THEN [grams |-> quantity * 100 * E4, source |-> "fallback_100g"]
              ELSE g2
    IN  [calories |-> kcalPer100g * g3.grams,
         meta |-> [fdcId |-> fdcId, description |-> food.description,
                   kcal_per_100g |-> kcalPer100g, grams |-> g3.grams,
                   gram_source |-> g3.source]]

----------------------------------------------------------------------------
(* cli.ts: constants and pure helpers.                                      *)

MAX_ITERATIONS == 8

\* CALORIE_TOLERANCE_RATIO = 0.05 = 1 / TolerancePerUnit
TolerancePerUnit == 20

Abs(x) == IF x < 0 THEN -x ELSE x

\* Variant: a strict comparison, which rejects a total exactly on the bound.
withinToleranceStrict(tot, tgt) == Abs(tot - tgt) < tgt \div TolerancePerUnit

\* withinTolerance(total, target): |total - target| <= target * 0.05.  Targets
\* are whole kcal, so target (E6) is divisible by 20 and the bound is exact.
withinTolerance(tot, tgt) == Abs(tot - tgt) <= tgt \div TolerancePerUnit

\* JSON values an ingredient's `quantity` may hold, and Number(quantity ?? 0).
QNum(n)  == [kind |-> "number", v |-> n]
QText    == [kind |-> "text", v |-> 0]      \* a non-numeric string: NaN
QMissing == [kind |-> "missing", v |-> 0]
QNumeral(n) == [kind |-> "numeral", v |-> n]  \* a string of digits, as "2"
QInfinity == [kind |-> "infinite", v |-> 0]   \* 1e999, or "Infinity"

IsFiniteNumber(q) == q.kind \notin {"text", "infinite"}
NumberOf(q) == IF q.kind \in {"number", "numeral"} THEN q.v ELSE 0

Item(q, unit, name) == [quantity |-> q, unit |-> unit, name |-> name]

\* The `ingredients` (or `changes`) member of a JSON payload: absent, a value
\* that is not iterable (a number, an object), or an array.
Missing     == [kind |-> "missing", items |-> <<>>]
NotIterable == [kind |-> "scalar", items |-> <<>>]
List(items) == [kind |-> "list", items |-> items]

\* a ?? b on payload members
OrElse(a, b) == IF a.kind = "missing" THEN b ELSE a

\* Variant: the quantity is not tested.
keepItemNamed(item) == trim(item.name) # <<>>

\* The body of the for loop of normalizeRecipe on one item.
keepItem(item) ==
    LET quantity == NumberOf(item.quantity)
        name == trim(item.name)
    IN  ~(name = <<>> \/ ~IsFiniteNumber(item.quantity) \/ quantity <= 0)

RECURSIVE normalizeItems(_)
normalizeItems(items) ==
    IF items = <<>> THEN <<>>
    ELSE LET item == Head(items)
             rest == normalizeItems(Tail(items))
         IN  IF keepItem(item)
             THEN <<[quantity |-> NumberOf(item.quantity),
                     unit |-> trim(item.unit),
                     name |-> trim(item.name)]>> \o rest
             ELSE rest

\* normalizeRecipe(recipeJson): the usable lines, or a TypeError when
\* `ingredients` is present and not iterable.
normalizeRecipe(recipe) ==
    LET ingredients == OrElse(recipe.ingredients, List(<<>>))
    IN  IF ingredients.kind = "scalar"
        THEN [threw |-> TRUE, ingredients |-> <<>>]
        ELSE [threw |-> FALSE, ingredients |-> normalizeItems(ingredients.items)]

\* Lines 194-197: the recipe after an adjustment payload.
adjustedRecipe(recipe, adjusted) ==
    [title |-> Coalesce(Coalesce(adjusted.title, recipe.title), Some("Untitled")),
     ingredients |-> OrElse(adjusted.ingredients, recipe.ingredients)]

Digits == <<"0", "1", "2", "3", "4", "5", "6", "7", "8", "9">>

\* String(n) for a natural number n: its decimal digits.
RECURSIVE toDecimal(_)
toDecimal(n) ==
    IF n < 10 THEN <<Digits[n + 1]>>
    ELSE toDecimal(n \div 10) \o <<Digits[(n % 10) + 1]>>

\* JSON values an entry of `changes` may be, besides a number (QNum).
JText(text) == [kind |-> "string", v |-> text]
JNull       == [kind |-> "null", v |-> 0]

\* String(entry) of line 200, on a string, a natural number and null.
String(value) ==
    CASE value.kind = "string" -> value.v
      [] value.kind = "number" -> toDecimal(value.v)
      [] value.kind = "null"   -> <<"n", "u", "l", "l">>

\* changes.map((entry) => String(entry))
mapString(items) == [k \in 1..Len(items) |-> String(items[k])]

\* Variant: the log is replaced by the latest changes instead of extended.
replaceChanges(log, adjusted) ==
    LET changes == OrElse(adjusted.changes, List(<<>>))
    IN  IF changes.kind = "list" THEN mapString(changes.items) ELSE log

\* Variant: the latest changes are put in front of the log.
prependChanges(log, adjusted) ==
    LET changes == OrElse(adjusted.changes, List(<<>>))
    IN  IF changes.kind = "list" THEN mapString(changes.items) \o log ELSE log

\* Lines 198-201: the change log after an adjustment payload.
appendChanges(log, adjusted) ==
    LET changes == OrElse(adjusted.changes, List(<<>>))
    IN  IF changes.kind = "list" THEN log \o mapString(changes.items) ELSE log

----------------------------------------------------------------------------
(* usdaClient.ts: the calls that reach the network.                         *)

\* What a searchFoods(name, 1, Foundation) request may come back with.
SearchResponses(name) ==
    {[ok |-> FALSE, hits |-> <<>>]}
        \cup {[ok |-> TRUE, hits |-> h] : h \in UpstreamSearch(name)}

\* What a food-detail request may come back with.
DetailResponses(fdcId) ==
    {[ok |-> FALSE, data |-> DetailA1]}
        \cup {[ok |-> TRUE, data |-> d] : d \in UpstreamDetails(fdcId)}

\* Variant: the cache is never trusted.
cacheHitNever(cached) == FALSE

\* Line 183, `if (cached)`: a cached record is returned without a request.
cacheHit(cached) == IsSome(cached)

\* Variant: the body of every response is stored, whatever its status.
afterResponseStoringAny(dbh, tbl, fdcId, r) == setCached(dbh, tbl, fdcId, r.data)

\* Lines 192-207: the table after the response r; setCached is reached only
\* when response.ok.
afterResponse(dbh, tbl, fdcId, r) ==
    IF r.ok THEN setCached(dbh, tbl, fdcId, r.data) ELSE tbl

\* getFoodDetails(fdcId) run to completion: every outcome it can have from
\* cache state (dbh, tbl).  `fetched` tells whether a request was issued.
getFoodDetailsOutcomes(dbh, tbl, fdcId) ==
    LET cached == getCached(dbh, tbl, fdcId)
    IN  IF cacheHit(cached)
        THEN {[ok |-> TRUE, data |-> cached[1], fetched |-> FALSE, tbl |-> tbl]}
        ELSE {[ok |-> r.ok, data |-> r.data, fetched |-> TRUE,
               tbl |-> afterResponse(dbh, tbl, fdcId, r)]
              : r \in DetailResponses(fdcId)}

\* searchFood(name) and the fdcId test of getCalories, given the response:
\* the fdcId to look up, or none when the call throws.
searchFoodId(response) ==
    IF ~response.ok THEN None
    ELSE IF response.hits = <<>> THEN None
    ELSE response.hits[1].fdcId

----------------------------------------------------------------------------
(* cli.ts: runOptimizer.                                                    *)

Targets == {100 * 1000000, 0}

unitG == <<"g">>

a200   == Item(QNum(200), unitG, nameA)
a100   == Item(QNum(100), <<" ", "G", "s">>, <<" ", "a", " ">>)
a50    == Item(QNum(50), <<>>, nameA)
b10    == Item(QNum(10), unitG, nameB)
b12    == Item(QNum(12), unitG, nameB)
x1     == Item(QNum(1), unitG, nameX)
zeroQ  == Item(QNum(0), unitG, nameA)
noQ    == Item(QMissing, unitG, nameA)
nanQ   == Item(QText, unitG, nameA)
blank  == Item(QNum(5), unitG, <<" ">>)

\* Ingredient members that extraction or adjustment payloads may carry.
IngredientPayloads ==
    {Missing, NotIterable, List(<<>>), List(<<zeroQ, nanQ, blank, noQ>>),
     List(<<zeroQ, a200, blank, b10>>), List(<<a100, b10>>),
     List(<<a100, b12>>), List(<<a50>>), List(<<a100, x1>>)}

ChangePayloads ==
    {Missing, NotIterable, List(<<>>), List(<<JText(<<"a">>), JText(<<"b">>)>>)}

\* What parseRecipeFromGemini may return.
ExtractPayloads ==
    {[title |-> t, ingredients |-> g] :
        t \in {None, Some("T1")}, g \in IngredientPayloads}

\* What requestRecipeAdjustment may return.
AdjustPayloads ==
    {[title |-> t, ingredients |-> g, changes |-> c] :
        t \in {None, Some("T2")}, g \in IngredientPayloads, c \in ChangePayloads}

\* Variant: every returned object carries the warning.
ReturnedWarned(recipe, tot, log, warning) ==
    Some([kind |-> "return", recipe |-> recipe, total_calories |-> tot,
          changes |-> log, warning |-> Some("Max iterations reached"),
          error |-> "none"])

Returned(recipe, tot, log, warning) ==
    Some([kind |-> "return", recipe |-> recipe, total_calories |-> tot,
          changes |-> log, warning |-> warning, error |-> "none"])

\* Variant: an error ends the run with a returned object.
ThrownAsReturned(error) ==
    Some([kind |-> "return", recipe |-> [title |-> None, ingredients |-> Missing],
          total_calories |-> 0, changes |-> <<>>, warning |-> None,
          error |-> error])

Thrown(error) ==
    Some([kind |-> "throw", recipe |-> [title |-> None, ingredients |-> Missing],
          total_calories |-> 0, changes |-> <<>>, warning |-> None,
          error |-> error])

\* Variant: a loop condition that admits one iteration too many.
loopContinuesInclusive(k) == k <= MAX_ITERATIONS

\* Line 163: the loop condition.
loopContinues(k) == k < MAX_ITERATIONS

\* Variant: no BelowTarget exit.
belowTargetNever(tot, tgt) == FALSE

\* Line 179: the BelowTarget test.
belowTarget(tot, tgt) == tot < tgt

\* The operands of line 186 exchanged.
deltaReversed(tot, tgt) == tgt - tot

\* Line 186: `const delta = total - targetCalories`, the calorieDelta argument
\* of requestRecipeAdjustment.
delta(tot, tgt) == tot - tgt

\* Lines 155-159: the keys are read and the recipe is extracted.
ParseRecipeFrom(payloads) ==
    /\ pc = "start"
    /\ \/ \E r \in payloads :
            /\ recipeJson' = r
            /\ extracted' = r
            /\ pc' = "loop"
            /\ result' = result
       \/ \E e \in {"MissingEnv", "ExtractionError"} :
            /\ pc' = "failed"
            /\ result' = Thrown(e)
            /\ UNCHANGED <<recipeJson, extracted>>
    /\ UNCHANGED <<target, changesLog, i, total, lines, idx, acc, evals, adjusts,
                   payload, gotChanges,
                   calorieDelta>>
    /\ UNCHANGED <<cacheVars, netVars, callVars, entry>>
    /\ UNCHANGED <<searchVars, unitVars, restVars>>

ParseRecipe == ParseRecipeFrom(ExtractPayloads)

\* Lines 163-167 and 204-209: the head of an iteration, or the exit of the loop.
ForHead ==
    /\ pc = "loop"
    /\ IF loopContinues(i)
       THEN LET n == normalizeRecipe(recipeJson)
            IN  IF n.threw
                THEN /\ pc' = "failed"
                     /\ result' = Thrown("TypeError")
                     /\ UNCHANGED <<lines, idx, acc>>
                ELSE IF n.ingredients = <<>>
                THEN /\ pc' = "failed"
                     /\ result' = Thrown("NoUsableIngredients")
                     /\ UNCHANGED <<lines, idx, acc>>
                ELSE /\ pc' = "eval"
                     /\ lines' = n.ingredients
                     /\ idx' = 1
                     /\ acc' = 0
                     /\ result' = result
       ELSE /\ pc' = "done"
            /\ result' = Returned(recipeJson, total, changesLog,
                                  Some("Max iterations reached"))
            /\ UNCHANGED <<lines, idx, acc>>
    /\ payload' = None
    /\ UNCHANGED <<target, recipeJson, extracted, changesLog, i, total, evals,
                   adjusts, gotChanges,
                   calorieDelta>>
    /\ UNCHANGED <<cacheVars, netVars, callVars, entry>>
    /\ UNCHANGED <<searchVars, unitVars, restVars>>

\* Lines 111-124 and 169: one pass of the loop of calculateTotalCalories, a
\* getCalories call; after the last line the sum is assigned to `total`.
ResolveLine ==
    /\ pc = "eval"
    /\ idx <= Len(lines)
    /\ \E sr \in SearchResponses(lines[idx].name) :
         /\ searches' = searches + 1
         /\ LET found == searchFoodId(sr)
            IN  IF ~IsSome(found)
                THEN /\ pc' = "failed"
                     /\ result' = Thrown(IF sr.ok THEN "NotFound" ELSE "UpstreamError")
                     /\ UNCHANGED <<idx, acc, total, evals, table, fetches>>
                ELSE \E o \in getFoodDetailsOutcomes(db, table, found[1]) :
                       /\ table' = o.tbl
                       /\ fetches' = IF o.fetched
                                     THEN [fetches EXCEPT ![found[1]] = @ + 1]
                                     ELSE fetches
                       /\ IF ~o.ok
                          THEN /\ pc' = "failed"
                               /\ result' = Thrown("UpstreamError")
                               /\ UNCHANGED <<idx, acc, total, evals>>
                          ELSE LET r == caloriesFromFood(lines[idx].quantity,
                                            lines[idx].unit, found[1], o.data)
                               IN  /\ acc' = acc + r.calories
                                   /\ idx' = idx + 1
                                   /\ result' = result
                                   /\ IF idx = Len(lines)
                                      THEN /\ total' = acc'
                                           /\ evals' = evals + 1
                                           /\ pc' = "check"
                                      ELSE UNCHANGED <<total, evals, pc>>
    /\ UNCHANGED <<target, recipeJson, extracted, changesLog, i, lines, adjusts,
                   payload, gotChanges,
                   calorieDelta>>
    /\ UNCHANGED <<db, callVars, entry>>
    /\ UNCHANGED <<searchVars, unitVars, restVars>>

\* Lines 171-185: Converged and BelowTarget return, otherwise adjust.
Check ==
    /\ pc = "check"
    /\ IF withinTolerance(total, target) \/ belowTarget(total, target)
       THEN /\ pc' = "done"
            /\ result' = Returned(recipeJson, total, changesLog, None)
       ELSE /\ pc' = "adjust"
            /\ result' = result
    /\ UNCHANGED <<target, recipeJson, extracted, changesLog, i, total, lines,
                   idx, acc, evals, adjusts, payload, gotChanges,
                   calorieDelta>>
    /\ UNCHANGED <<cacheVars, netVars, callVars, entry>>
    /\ UNCHANGED <<searchVars, unitVars, restVars>>

\* Lines 187-201: requestRecipeAdjustment and the use of its payload.
\* Lines 186-192: the call, with `changesLog` as its `history` argument.
AdjustCall ==
    /\ pc = "adjust"
    /\ adjusts' = adjusts + 1
    /\ calorieDelta' = Some(delta(total, target))
    /\ UNCHANGED <<target, extracted, total, lines, idx, acc, evals>>
    /\ UNCHANGED <<cacheVars, netVars, callVars, entry>>
    /\ UNCHANGED <<searchVars, unitVars>>

\* Lines 193-201: the call has returned the payload p.
AdjustReturns(p) ==
    /\ recipeJson' = adjustedRecipe(recipeJson, p)
    /\ changesLog' = appendChanges(changesLog, p)
    /\ payload' = Some(p.ingredients)
    /\ gotChanges' = (gotChanges \/ (p.changes.kind = "list"
                                       /\ p.changes.items # <<>>))
    /\ i' = i + 1
    /\ pc' = "loop"
    /\ result' = result

\* The call has thrown (geminiGenerate or extractJson).
AdjustThrows ==
    /\ pc' = "failed"
    /\ result' = Thrown("AdjustmentError")
    /\ UNCHANGED <<recipeJson, changesLog, i, payload, gotChanges>>

Adjust ==
    /\ AdjustCall
    /\ \/ \E p \in AdjustPayloads : AdjustReturns(p)
       \/ AdjustThrows
    /\ UNCHANGED restVars

Callers == {1, 2}

IdleCall == [pc |-> "idle", fdcId |-> 1, ret |-> None]

NoRecipe == [title |-> None, ingredients |-> Missing]

\* No multiSearchFoods call has been made.
IdleMulti == [pc |-> "idle", ret |-> <<>>, error |-> None]

searchIdle ==
    /\ queries = <<>>
    /\ searchPromises = <<>>
    /\ settled = <<>>
    /\ multi = IdleMulti

\* No getCaloriesByFdcId call is under study.
unitIdle ==
    /\ inQuantity = 1
    /\ inUnit = <<>>
    /\ inFood = DetailA1
    /\ outCalories = None

\* No getCalories call has been made.
IdleByName ==
    [pc |-> "idle", quantity |-> 1, unit |-> <<>>, name |-> <<>>,
     searched |-> FALSE, results |-> <<>>, fdcId |-> None, ret |-> None,
     error |-> None]

resolveIdle ==
    /\ byName = IdleByName
    /\ requests = <<>>

\* No optimizeAgent call has been made.
IdleBatch == [pc |-> "idle", ingredients |-> <<>>, error |-> None]

batchIdle ==
    /\ batch = IdleBatch
    /\ agents = <<>>
    /\ traces = <<>>
    /\ output = None

\* No model call is in progress and errors.log is empty.
IdleRetry ==
    [pc |-> "idle", attemptNumber |-> 0, onRetry |-> FALSE, failures |-> <<>>,
     thrown |-> None]

retryIdle ==
    /\ retry = IdleRetry
    /\ errorLog = <<>>

\* The EventLogger instance as constructed (lines 19-21).
eventsIdle ==
    /\ events = <<>>
    /\ eventIdCounter = 0
    /\ clock = 0
    /\ snapshot = None

\* usdaClient.ts line 31 and llmClient.ts: both module variables are null
\* when the modules are loaded; no call has been made.
IdleClients ==
    [usdaClientInstance |-> None, llmClientInstance |-> None, created |-> 0,
     call |-> "none", arg |-> None, threw |-> None, ret |-> None]

lastIdle ==
    /\ adjustments = <<>>
    /\ norm = None
    /\ runs = <<>>
    /\ clients = IdleClients

restIdle ==
    /\ resolveIdle
    /\ batchIdle
    /\ retryIdle
    /\ eventsIdle
    /\ lastIdle

\* The CLI process at the call of runOptimizer: initCache was never called.
Init ==
    /\ db = "null"
    /\ table = EmptyTable
    /\ entry = "cli"
    /\ fetches = [id \in FdcIds |-> 0]
    /\ searches = 0
    /\ call = [c \in Callers |-> IdleCall]
    /\ lastPut = [id \in FdcIds |-> None]
    /\ pc = "start"
    /\ target \in Targets
    /\ recipeJson = NoRecipe
    /\ extracted = NoRecipe
    /\ changesLog = <<>>
    /\ i = 0
    /\ total = 0
    /\ lines = <<>>
    /\ idx = 1
    /\ acc = 0
    /\ evals = 0
    /\ adjusts = 0
    /\ payload = None
    /\ gotChanges = FALSE
    /\ calorieDelta = None
    /\ result = None
    /\ searchIdle
    /\ unitIdle
    /\ restIdle

Next == ParseRecipe \/ ForHead \/ ResolveLine \/ Check \/ Adjust

Spec == Init /\ [][Next]_vars

----------------------------------------------------------------------------
(* The processes that use the detail cache: the server (index.ts calls      *)
(* initCache before it listens, then serves requests concurrently) and the  *)
(* CLI (cli.ts never calls initCache and runs one call at a time).          *)

MaxFetches == 2

loopIdle ==
    UNCHANGED <<pc, target, recipeJson, extracted, changesLog, i, total, lines,
                idx, acc, evals, adjusts, payload, gotChanges, calorieDelta,
               result>>

\* index.ts line 67: initCache() opens the database; existing rows are kept.
ServerStart ==
    /\ entry = "boot"
    /\ entry' = "server"
    /\ db' = "open"
    /\ UNCHANGED <<table, netVars, callVars>>
    /\ loopIdle
    /\ UNCHANGED <<searchVars, unitVars, restVars>>

\* cli.ts lines 155-157: the client is constructed, the cache is not opened.
CliStart ==
    /\ entry = "boot"
    /\ entry' = "cli"
    /\ UNCHANGED <<cacheVars, netVars, callVars>>
    /\ loopIdle
    /\ UNCHANGED <<searchVars, unitVars, restVars>>

\* getFoodDetails lines 180-191: the cache is consulted; a hit returns, a
\* miss issues the request and awaits the response.
CallStart(c, fdcId) ==
    /\ entry # "boot"
    /\ call[c].pc # "fetching"
    /\ entry = "cli" => \A d \in Callers : call[d].pc # "fetching"
    /\ fetches[fdcId] < MaxFetches
    /\ LET cached == getCached(db, table, fdcId)
       IN  IF cacheHit(cached)
           THEN /\ call' = [call EXCEPT ![c] =
                              [pc |-> "returned", fdcId |-> fdcId, ret |-> cached]]
                /\ fetches' = fetches
           ELSE /\ call' = [call EXCEPT ![c] =
                              [pc |-> "fetching", fdcId |-> fdcId, ret |-> None]]
                /\ fetches' = [fetches EXCEPT ![fdcId] = @ + 1]
    /\ UNCHANGED <<cacheVars, entry, searches, lastPut>>
    /\ loopIdle
    /\ UNCHANGED <<searchVars, unitVars, restVars>>

\* getFoodDetails lines 192-210: the response arrives; a failure is thrown,
\* a success is stored with setCached and returned.
CallResponse(c) ==
    /\ call[c].pc = "fetching"
    /\ \E r \in DetailResponses(call[c].fdcId) :
         /\ table' = afterResponse(db, table, call[c].fdcId, r)
         /\ IF r.ok
            THEN /\ lastPut' = [lastPut EXCEPT ![call[c].fdcId] = Some(r.data)]
                 /\ call' = [call EXCEPT ![c].pc = "returned",
                                         ![c].ret = Some(r.data)]
            ELSE /\ call' = [call EXCEPT ![c].pc = "threw"]
                 /\ lastPut' = lastPut
    /\ UNCHANGED <<db, entry, netVars>>
    /\ loopIdle
    /\ UNCHANGED <<searchVars, unitVars, restVars>>

InitCache ==
    /\ db = "null"
    /\ table = EmptyTable
    /\ entry = "boot"
    /\ fetches = [id \in FdcIds |-> 0]
    /\ searches = 0
    /\ call = [c \in Callers |-> IdleCall]
    /\ lastPut = [id \in FdcIds |-> None]
    /\ pc = "start"
    /\ target = 0
    /\ recipeJson = NoRecipe
    /\ extracted = NoRecipe
    /\ changesLog = <<>>
    /\ i = 0
    /\ total = 0
    /\ lines = <<>>
    /\ idx = 1
    /\ acc = 0
    /\ evals = 0
    /\ adjusts = 0
    /\ payload = None
    /\ gotChanges = FALSE
    /\ calorieDelta = None
    /\ result = None
    /\ searchIdle
    /\ unitIdle
    /\ restIdle

NextCache ==
    \/ ServerStart
    \/ CliStart
    \/ \E c \in Callers, fdcId \in FdcIds : CallStart(c, fdcId)
    \/ \E c \in Callers : CallResponse(c)

SpecCache == InitCache /\ [][NextCache]_vars

----------------------------------------------------------------------------
(* Properties of runOptimizer, checked under Spec.                          *)

Terminated == pc \in {"done", "failed"}
HasWarning == IsSome(result) /\ IsSome(result[1].warning)

\* The tolerance and the side of the target, as the design states them.
WithinOfTarget(tot, tgt) == Abs(tot - tgt) <= tgt \div 20
AboveBeyondTolerance(tot, tgt) == tot > tgt /\ ~WithinOfTarget(tot, tgt)

\* C1: the numbers of evaluations and of adjust invocations never exceed
\* MAX_ITERATIONS, and a run that returns although every evaluation was above
\* the target beyond tolerance has made exactly MAX_ITERATIONS evaluations
\* and MAX_ITERATIONS adjust invocations and carries a warning.
C1_BoundedIterations ==
    /\ evals <= MAX_ITERATIONS
    /\ adjusts <= MAX_ITERATIONS
    /\ (pc = "done" /\ AboveBeyondTolerance(total, target))
          => (evals = MAX_ITERATIONS /\ adjusts = MAX_ITERATIONS /\ HasWarning)

C1_Witness ==
    /\ pc = "done"
    /\ AboveBeyondTolerance(total, target)
    /\ evals = MAX_ITERATIONS
    /\ adjusts = MAX_ITERATIONS
    /\ HasWarning

\* C2: when the first evaluation finds the extracted recipe within tolerance
\* of the target, the run returns at once: the extracted recipe, that total,
\* an empty change log, no warning, and no adjust invocation.
C2_ConvergedAtFirstEvaluation ==
    [][(pc = "check" /\ evals = 1 /\ WithinOfTarget(total, target))
         => /\ pc' = "done"
            /\ result' = Returned(extracted, total, <<>>, None)
            /\ adjusts' = 0
            /\ i' = 0]_vars

C2_Witness ==
    /\ pc = "done"
    /\ evals = 1
    /\ WithinOfTarget(total, target)
    /\ total > target
    /\ result = Returned(extracted, total, <<>>, None)
    /\ adjusts = 0

\* C3: after an evaluation with a total below the target the run returns at
\* once, without a warning, with the current recipe, and the adjustment is
\* not invoked; once returned, nothing is invoked any more.
C3_BelowTargetReturns ==
    [][/\ (pc = "check" /\ total < target)
            => /\ pc' = "done"
               /\ result' = Returned(recipeJson, total, changesLog, None)
               /\ adjusts' = adjusts
       /\ pc = "done" => (pc' = "done" /\ adjusts' = adjusts)]_vars

C3_Witness ==
    /\ pc = "done"
    /\ total < target
    /\ ~WithinOfTarget(total, target)
    /\ adjusts > 0
    /\ result = Returned(recipeJson, total, changesLog, None)

\* C4 (as claimed): a run whose extraction gave a usable ingredient and in
\* which no extraction, nutrition-source or adjustment call failed never
\* raises, whatever the adjustment returned: every failure is a failed call
\* or an extracted recipe without a usable ingredient.
C4_NeverRaisesAsClaimed ==
    pc = "failed"
        => \/ result[1].error \in {"MissingEnv", "ExtractionError",
                                   "UpstreamError", "NotFound", "AdjustmentError"}
           \/ normalizeRecipe(extracted).threw
           \/ normalizeRecipe(extracted).ingredients = <<>>

\* C5 (as claimed): a run that fails with NoUsableIngredients has issued no
\* search and no detail request.
C5_NoUsableBeforeNetworkAsClaimed ==
    (pc = "failed" /\ result[1].error = "NoUsableIngredients")
        => (searches = 0 /\ \A id \in FdcIds : fetches[id] = 0)

\* C6 (as claimed): a result returned with the warning carries a non-empty
\* change log.
C6_ExhaustedLogNonEmptyAsClaimed ==
    (pc = "done" /\ HasWarning) => result[1].changes # <<>>

\* C6 (amended): a result returned with the warning has seen MAX_ITERATIONS
\* adjustments, and its change log is non-empty exactly when one of them
\* returned a non-empty array of changes.
C6_ExhaustedLogIffChangesReturned ==
    (pc = "done" /\ HasWarning)
        => /\ adjusts = MAX_ITERATIONS
           /\ result[1].changes = changesLog
           /\ (result[1].changes # <<>>) <=> gotChanges

C6_Witness ==
    /\ pc = "done"
    /\ HasWarning
    /\ gotChanges
    /\ Len(result[1].changes) = 2

\* C7 (as claimed): when the ingredients member of the adjustment payload is
\* missing or is not a list, the recipe keeps its ingredient list, so that
\* the next evaluation runs on the lines of the previous one.
C7_InvalidPayloadIgnoredAsClaimed ==
    (pc = "loop" /\ IsSome(payload) /\ payload[1].kind # "list")
        => /\ ~normalizeRecipe(recipeJson).threw
           /\ normalizeRecipe(recipeJson).ingredients = lines

----------------------------------------------------------------------------
(* Properties of getFoodDetails and the cache, checked under SpecCache.     *)

\* The record the cache holds for fdcId, as a get would report it.
Held(dbh, tbl, fdcId) ==
    IF dbh = "open" /\ tbl[fdcId] # <<>> THEN <<JSONparse(tbl[fdcId][1])>> ELSE <<>>

\* A step in which caller c begins a getFoodDetails call.
Begins(c) == call[c].pc # "fetching" /\ call'[c] # call[c]

\* C8: a getFoodDetails call made while the cache holds a record for its
\* fdcId returns that record at once and issues no request.
C8_HitIssuesNoRequest ==
    [][\A c \in Callers :
          (Begins(c) /\ Held(db, table, call'[c].fdcId) # <<>>)
             => /\ call'[c].pc = "returned"
                /\ call'[c].ret = Held(db, table, call'[c].fdcId)
                /\ fetches' = fetches]_vars

\* Two calls for fdcId 1 have returned its record and one request was issued.
C8_Witness ==
    /\ call[1].pc = "returned" /\ call[1].fdcId = 1
    /\ call[2].pc = "returned" /\ call[2].fdcId = 1
    /\ call[1].ret = call[2].ret
    /\ fetches[1] = 1
    /\ Held(db, table, 1) = call[1].ret

\* C9 (as claimed): once a getFoodDetails call for an fdcId has returned, the
\* cache holds a record of that food, so that a later call for it is a hit.
C9_ReturnedIsCachedAsClaimed ==
    \A c \in Callers :
        call[c].pc = "returned"
            => /\ Held(db, table, call[c].fdcId) # <<>>
               /\ Held(db, table, call[c].fdcId)[1] \in UpstreamDetails(call[c].fdcId)

\* C10 (as claimed): for every fdcId, a get after a put returns the value of
\* the latest put for that fdcId, whole, whatever was put for other ids.
C10_GetReturnsLastPutAsClaimed ==
    \A id \in FdcIds :
        lastPut[id] # <<>> => getCached(db, table, id) = lastPut[id]

\* C11: the cache never loses a record: a step from a state in which a get
\* for an fdcId reports a record leads to a state in which it still does,
\* whatever get and put run, for this or for another fdcId.
C11_NoEviction ==
    [][\A id \in FdcIds :
          Held(db, table, id) # <<>> => Held(db', table', id) # <<>>]_vars

\* Both foods are cached, and the record of food 1 was present while food 2
\* was fetched and stored.
C11_Witness ==
    /\ Held(db, table, 1) # <<>>
    /\ Held(db, table, 2) # <<>>
    /\ fetches[1] = 2
    /\ fetches[2] = 1

\* C12: with concurrent calls for one fdcId the cache entry is, in every
\* state, absent or the complete record answered to one of the requests,
\* namely the one of the latest put; in the server, once a put has run, the
\* entry is the record of the latest put.
C12_LastWriterWins ==
    \A id \in FdcIds :
        /\ Held(db, table, id) # <<>>
              => /\ Held(db, table, id)[1] \in UpstreamDetails(id)
                 /\ Held(db, table, id) = lastPut[id]
        /\ (entry = "server" /\ lastPut[id] # <<>>)
              => Held(db, table, id) = lastPut[id]

\* Two calls for food 1 raced (two requests were issued), returned different
\* records, and the cache holds the one of the later put.
C12_Witness ==
    /\ call[1].pc = "returned" /\ call[1].fdcId = 1
    /\ call[2].pc = "returned" /\ call[2].fdcId = 1
    /\ call[1].ret # call[2].ret
    /\ fetches[1] = 2
    /\ Held(db, table, 1) = call[2].ret
    /\ Held(db, table, 1) = lastPut[1]

----------------------------------------------------------------------------
(* usdaClient.ts: multiSearchFoods (SearchAggregator), lines 145-169.       *)

MaxQueries == 2

hitOil     == SearchHit(Some(1), "oil")
hitOilAlt  == SearchHit(Some(1), "oil, refined")
hitSugar   == SearchHit(Some(2), "sugar")
hitSalt    == SearchHit(Some(3), "salt")
hitNoId    == SearchHit(None, "no id")

\* The hit lists searchFoods(query, 10) may answer with: lists of two
\* queries overlap, and one list names the same fdcId twice.
UpstreamHits(query) ==
    IF query = nameA THEN {<<hitOil, hitSugar>>, <<hitSugar, hitOil>>}
    ELSE IF query = nameB THEN {<<hitSugar, hitSalt>>, <<hitSalt, hitOilAlt, hitSalt>>}
    ELSE {<<>>, <<hitNoId>>}

\* How one searchFoods call may settle (lines 118-129): a response that is
\* not ok is thrown as an Error carrying the status, otherwise the mapped
\* foods are returned.
SearchOutcomes(query) ==
    {[state |-> "rejected", value |-> <<>>, status |-> st] : st \in {429, 500}}
        \cup {[state |-> "fulfilled", value |-> h, status |-> 200]
                  : h \in UpstreamHits(query)}

PendingSearch == [state |-> "pending", value |-> <<>>, status |-> 0]

\* The Error object of the searchFoods call k.
SearchError(k, promises) == [call |-> k, status |-> promises[k].status]

Min(S) == CHOOSE m \in S : \A n \in S : m <= n

\* Variant: the values are gathered in the order the calls completed.
promiseAllInSettleOrder(promises, order) ==
    LET rej == {j \in 1..Len(order) : promises[order[j]].state = "rejected"}
    IN  IF rej # {}
        THEN [state |-> "rejected", value |-> <<>>,
              error |-> Some(SearchError(order[Min(rej)], promises))]
        ELSE IF \A k \in 1..Len(promises) : promises[k].state = "fulfilled"
        THEN [state |-> "fulfilled",
              value |-> [j \in 1..Len(order) |-> promises[order[j]].value],
              error |-> None]
        ELSE [state |-> "pending", value |-> <<>>, error |-> None]

\* Variant: a join that waits for every call and takes a failed call as an
\* empty hit list (Promise.allSettled with the rejections dropped).
promiseAllSkippingRejected(promises, order) ==
    IF \A k \in 1..Len(promises) : promises[k].state # "pending"
    THEN [state |-> "fulfilled",
          value |-> [k \in 1..Len(promises) |-> promises[k].value],
          error |-> None]
    ELSE [state |-> "pending", value |-> <<>>, error |-> None]

\* Variant: a join that is fulfilled by the first call that is fulfilled.
promiseAllFirstFulfilled(promises, order) ==
    LET rej == {j \in 1..Len(order) : promises[order[j]].state = "rejected"}
    IN  IF rej # {}
        THEN [state |-> "rejected", value |-> <<>>,
              error |-> Some(SearchError(order[Min(rej)], promises))]
        ELSE IF promises = <<>>
                \/ \E k \in 1..Len(promises) : promises[k].state = "fulfilled"
        THEN [state |-> "fulfilled",
              value |-> [k \in 1..Len(promises) |-> promises[k].value],
              error |-> None]
        ELSE [state |-> "pending", value |-> <<>>, error |-> None]

\* Promise.all(searchPromises), line 153, given the calls' states and the
\* order in which they settled: rejected with the reason of the first call
\* that was rejected, fulfilled with the values in the order of the input
\* once every call is fulfilled, pending otherwise.
promiseAll(promises, order) ==
    LET rej == {j \in 1..Len(order) : promises[order[j]].state = "rejected"}
    IN  IF rej # {}
        THEN [state |-> "rejected", value |-> <<>>,
              error |-> Some(SearchError(order[Min(rej)], promises))]
        ELSE IF \A k \in 1..Len(promises) : promises[k].state = "fulfilled"
        THEN [state |-> "fulfilled",
              value |-> [k \in 1..Len(promises) |-> promises[k].value],
              error |-> None]
        ELSE [state |-> "pending", value |-> <<>>, error |-> None]

\* The inner loop of lines 159-165 over results[k..], from the set of seen
\* fdcIds: <<foods pushed, seen afterwards>>.
RECURSIVE pushUnseen(_, _, _)
pushUnseen(results, k, seenFdcIds) ==
    IF k > Len(results) THEN [pushed |-> <<>>, seen |-> seenFdcIds]
    ELSE IF results[k].fdcId \in seenFdcIds
         THEN pushUnseen(results, k + 1, seenFdcIds)
         ELSE LET rest == pushUnseen(results, k + 1,
                                     seenFdcIds \cup {results[k].fdcId})
              IN  [pushed |-> <<results[k]>> \o rest.pushed, seen |-> rest.seen]

\* Variant: every food is pushed, seen or not.
RECURSIVE dedupeNothing(_, _, _)
dedupeNothing(resultsArray, n, seenFdcIds) ==
    IF n > Len(resultsArray) THEN <<>>
    ELSE resultsArray[n] \o dedupeNothing(resultsArray, n + 1, seenFdcIds)

\* Lines 155-168: the outer loop over resultsArray[n..]; uniqueResults.
RECURSIVE dedupe(_, _, _)
dedupe(resultsArray, n, seenFdcIds) ==
    IF n > Len(resultsArray) THEN <<>>
    ELSE LET p == pushUnseen(resultsArray[n], 1, seenFdcIds)
         IN  p.pushed \o dedupe(resultsArray, n + 1, p.seen)

\* multiSearchFoods at its await, line 153, and what follows it.
afterAwait(promises, order) ==
    LET all == promiseAll(promises, order)
    IN  CASE all.state = "rejected" ->
                 [pc |-> "threw", ret |-> <<>>, error |-> all.error]
          [] all.state = "fulfilled" ->
                 [pc |-> "returned", ret |-> dedupe(all.value, 1, {}),
                  error |-> None]
          [] OTHER -> [pc |-> "awaiting", ret |-> <<>>, error |-> None]

QueryLists ==
    UNION {[1..n -> {nameA, nameB, nameX}] : n \in 0..MaxQueries}

loopAndCacheIdle ==
    /\ loopIdle
    /\ UNCHANGED <<cacheVars, entry, fetches, callVars, unitVars, restVars>>

\* Lines 150-153: one searchFoods call is started per query, then the
\* function awaits Promise.all.
MultiSearchStart(qs) ==
    /\ multi.pc = "idle"
    /\ queries' = qs
    /\ searchPromises' = [k \in 1..Len(qs) |-> PendingSearch]
    /\ searches' = searches + Len(qs)
    /\ settled' = settled
    /\ multi' = afterAwait(searchPromises', settled')
    /\ loopAndCacheIdle

\* One searchFoods call settles; a multiSearchFoods that is still awaiting
\* is resumed when Promise.all settles with it.
SearchSettle(k) ==
    /\ k \in 1..Len(searchPromises)
    /\ searchPromises[k].state = "pending"
    /\ \E o \in SearchOutcomes(queries[k]) :
         searchPromises' = [searchPromises EXCEPT ![k] = o]
    /\ settled' = Append(settled, k)
    /\ multi' = IF multi.pc = "awaiting"
                THEN afterAwait(searchPromises', settled')
                ELSE multi
    /\ UNCHANGED <<queries, searches>>
    /\ loopAndCacheIdle

\* The server after initCache, before a multiSearchFoods call.
InitSearch ==
    /\ db = "open"
    /\ table = EmptyTable
    /\ entry = "server"
    /\ fetches = [id \in FdcIds |-> 0]
    /\ searches = 0
    /\ call = [c \in Callers |-> IdleCall]
    /\ lastPut = [id \in FdcIds |-> None]
    /\ pc = "start"
    /\ target = 0
    /\ recipeJson = NoRecipe
    /\ extracted = NoRecipe
    /\ changesLog = <<>>
    /\ i = 0
    /\ total = 0
    /\ lines = <<>>
    /\ idx = 1
    /\ acc = 0
    /\ evals = 0
    /\ adjusts = 0
    /\ payload = None
    /\ gotChanges = FALSE
    /\ calorieDelta = None
    /\ result = None
    /\ searchIdle
    /\ unitIdle
    /\ restIdle

NextSearch ==
    \/ \E qs \in QueryLists : MultiSearchStart(qs)
    \/ \E k \in 1..MaxQueries : SearchSettle(k)

SpecSearch == InitSearch /\ [][NextSearch]_vars

----------------------------------------------------------------------------
(* Properties of multiSearchFoods, checked under SpecSearch.                *)

HitIds == {None} \cup {Some(n) : n \in 1..3}

\* How many foods of a list carry this fdcId.
Occurrences(foods, id) == Cardinality({j \in 1..Len(foods) : foods[j].fdcId = id})

OccursInSomeResult(id) ==
    \E k \in 1..Len(searchPromises) :
        Occurrences(searchPromises[k].value, id) > 0

\* C13: a returned list holds every fdcId that occurs in the hit list of
\* some query exactly once, and no fdcId that occurs in none.
C13_EachIdOnce ==
    multi.pc = "returned" =>
        \A id \in HitIds :
            Occurrences(multi.ret, id) =
                IF OccursInSomeResult(id) THEN 1 ELSE 0

\* Two queries returned; an fdcId is in both hit lists and another one is
\* twice in one hit list.
C13_Witness ==
    /\ multi.pc = "returned"
    /\ Len(queries) = 2
    /\ \E id \in HitIds :
         /\ Occurrences(searchPromises[1].value, id) > 0
         /\ Occurrences(searchPromises[2].value, id) > 0
    /\ \E id \in HitIds : Occurrences(searchPromises[2].value, id) = 2

\* The concatenation of the hit lists of calls n.., in submission order.
RECURSIVE Concatenation(_, _)
Concatenation(promises, n) ==
    IF n > Len(promises) THEN <<>>
    ELSE promises[n].value \o Concatenation(promises, n + 1)

\* A list without the foods whose fdcId an earlier food of the list has.
RECURSIVE LaterDuplicatesRemoved(_, _)
LaterDuplicatesRemoved(foods, j) ==
    IF j > Len(foods) THEN <<>>
    ELSE IF \E e \in 1..(j - 1) : foods[e].fdcId = foods[j].fdcId
         THEN LaterDuplicatesRemoved(foods, j + 1)
         ELSE <<foods[j]>> \o LaterDuplicatesRemoved(foods, j + 1)

\* C14: a returned list is the concatenation of the hit lists in the order
\* the queries were submitted, later duplicates removed, whatever the order
\* in which the calls completed.
C14_FirstSeenInSubmissionOrder ==
    multi.pc = "returned" =>
        multi.ret = LaterDuplicatesRemoved(Concatenation(searchPromises, 1), 1)

\* The second call completed before the first, the two hit lists share an
\* fdcId under different descriptions, and the list returned starts with
\* the hits of the first query.
C14_Witness ==
    /\ multi.pc = "returned"
    /\ settled = <<2, 1>>
    /\ searchPromises[1].value = <<hitOil, hitSugar>>
    /\ searchPromises[2].value = <<hitSalt, hitOilAlt, hitSalt>>
    /\ multi.ret = <<hitOil, hitSugar, hitSalt>>

\* C15: as soon as one searchFoods call has failed, the multiSearchFoods
\* call has failed with the error of the first call that failed, and has
\* no list, whatever the other calls did.
C15_AllOrNothing ==
    \A k \in 1..Len(searchPromises) :
        searchPromises[k].state = "rejected" =>
            /\ multi.pc = "threw"
            /\ multi.ret = <<>>
            /\ \E f \in 1..Len(searchPromises) :
                 /\ searchPromises[f].state = "rejected"
                 /\ multi.error = Some([call |-> f,
                                        status |-> searchPromises[f].status])
                 /\ \A j \in 1..Len(settled) :
                      searchPromises[settled[j]].state = "rejected"
                          => \E e \in 1..j : settled[e] = f

\* One of two calls failed after the other had succeeded with hits.
C15_Witness ==
    /\ multi.pc = "threw"
    /\ Len(queries) = 2
    /\ searchPromises[settled[1]].state = "fulfilled"
    /\ searchPromises[settled[1]].value # <<>>
    /\ Len(settled) = 2
    /\ searchPromises[settled[2]].state = "rejected"

\* C16 as stated: a multiSearchFoods call that has returned or failed has
\* no searchFoods call still in flight.
C16_CompletesAfterAllAsClaimed ==
    multi.pc \in {"returned", "threw"} =>
        \A k \in 1..Len(searchPromises) : searchPromises[k].state # "pending"

\* C16: one searchFoods call is started per query; the call returns only
\* when every one of them has succeeded, and it fails when the first of
\* them fails, also while other calls are in flight.
C16_ReturnsAfterAllFailsAtFirst ==
    /\ multi.pc # "idle" =>
          /\ Len(searchPromises) = Len(queries)
          /\ searches = Len(queries)
    /\ multi.pc = "returned" =>
          \A k \in 1..Len(searchPromises) : searchPromises[k].state = "fulfilled"
    /\ multi.pc = "threw" =>
          \E k \in 1..Len(searchPromises) : searchPromises[k].state = "rejected"
    /\ multi.pc = "awaiting" =>
          /\ \E k \in 1..Len(searchPromises) : searchPromises[k].state = "pending"
          /\ \A k \in 1..Len(searchPromises) : searchPromises[k].state # "rejected"

\* The call has failed while one of its two searchFoods calls is in flight.
C16_Witness ==
    /\ multi.pc = "threw"
    /\ Len(queries) = 2
    /\ \E k \in 1..2 : searchPromises[k].state = "pending"

----------------------------------------------------------------------------
(* usdaClient.ts: getCaloriesByFdcId on an obtained detail (UnitConverter   *)
(* and the calorie formula), lines 70-93.                                   *)

\* Quantities a caller may pass: cli.ts passes positive ones only, the
\* `calories` procedure of router.ts passes the request's number as it is.
Quantities == {0 - 1, 0, 1, 2}

\* InitUnits adds one larger call: 200 g of a food with 52 kcal per 100 g.

Units ==
    {<<"g">>, <<" ", "G", "s">>, <<"g", "r", "a", "m">>, <<"K", "G">>,
     <<"k", "i", "l", "o", "g", "r", "a", "m", "s">>, <<"o", "z">>,
     <<"O", "u", "n", "c", "e", "s", " ">>, <<"l", "b", "s">>,
     <<"p", "o", "u", "n", "d">>,
     <<>>, <<" ">>, <<"s">>,
     sCup, <<" ", "C", "u", "p", "s">>, <<"p", "c">>}

\* A detail whose first portions for `cup` have no usable gram weight.
DetailRice ==
    FoodDetail(2, "rice", <<NestedNutrient(ENERGY_ID, sEnergy, sKcal, 50)>>,
               <<Portion(<<"u", "n", "d">>, sCup, 0),
                 [measureUnit |-> None, modifier |-> Some(<<"C", "u", "p", "s">>),
                  gramWeight |-> None],
                 Portion(sCup, <<>>, 30),
                 Portion(sCup, <<>>, 40)>>)

sAtwater == sEnergy \o <<" ", "(", "A", "t", "w", "a", "t", "e", "r", ")">>
sKJ == <<"k", "J">>

\* The energy nutrient 1008 first, a kcal nutrient named Energy... after it.
DetailApple ==
    FoodDetail(1, "apple", <<FlatNutrient(ENERGY_ID, sEnergy, sKcal, 52),
                             FlatNutrient(2047, sAtwater, <<"K", "C", "A", "L">>, 60)>>,
               <<>>)

\* The same nutrients in the other order, after a nutrient that is neither.
DetailAppleAtwaterFirst ==
    FoodDetail(1, "apple", <<NestedNutrient(1003, <<"P">>, <<"g">>, 3),
                             FlatNutrient(2047, sAtwater, sKcal, 60),
                             NestedNutrient(ENERGY_ID, sEnergy, sKcal, 52)>>,
               <<>>)

\* No energy nutrient: energy in kJ only, and a kcal nutrient of another name.
DetailNoEnergy ==
    FoodDetail(2, "water", <<FlatNutrient(1062, sEnergy, sKJ, 9),
                             NestedNutrient(2000, <<"S">>, sKcal, 7)>>,
               <<Portion(sCup, <<>>, 200)>>)

Foods == {DetailA1, DetailB1, DetailRice, DetailApple, DetailAppleAtwaterFirst,
          DetailNoEnergy}

\* Lines 70-93 of getCaloriesByFdcId, after getFoodDetails has returned.
Convert ==
    /\ outCalories = None
    /\ outCalories' =
           Some(caloriesFromFood(inQuantity, inUnit, inFood.fdcId, inFood))
    /\ UNCHANGED <<inQuantity, inUnit, inFood>>
    /\ loopIdle
    /\ UNCHANGED <<cacheVars, entry, netVars, callVars, searchVars, restVars>>

InitUnits ==
    /\ db = "open"
    /\ table = EmptyTable
    /\ entry = "server"
    /\ fetches = [id \in FdcIds |-> 0]
    /\ searches = 0
    /\ call = [c \in Callers |-> IdleCall]
    /\ lastPut = [id \in FdcIds |-> None]
    /\ pc = "start"
    /\ target = 0
    /\ recipeJson = NoRecipe
    /\ extracted = NoRecipe
    /\ changesLog = <<>>
    /\ i = 0
    /\ total = 0
    /\ lines = <<>>
    /\ idx = 1
    /\ acc = 0
    /\ evals = 0
    /\ adjusts = 0
    /\ payload = None
    /\ gotChanges = FALSE
    /\ calorieDelta = None
    /\ result = None
    /\ searchIdle
    /\ \/ /\ inQuantity \in Quantities
          /\ inUnit \in Units
          /\ inFood \in Foods
       \/ /\ inQuantity = 200
          /\ inUnit = unitG
          /\ inFood = DetailApple
    /\ outCalories = None
    /\ restIdle

NextUnits == Convert

SpecUnits == InitUnits /\ [][NextUnits]_vars

----------------------------------------------------------------------------
(* Properties of the unit conversion, checked under SpecUnits.              *)

Converted == outCalories # <<>>
Grams == outCalories[1].meta.grams
GramSource == outCalories[1].meta.gram_source
Normalized == normalizeUnit(inUnit)

\* The weight table of the design: factor per normalized unit, in E4.
WeightFactor ==
    (<<"g">> :> 10000) @@ (<<"g", "r", "a", "m">> :> 10000)
    @@ (<<"k", "g">> :> 10000000)
    @@ (<<"k", "i", "l", "o", "g", "r", "a", "m">> :> 10000000)
    @@ (<<"o", "z">> :> 283495) @@ (<<"o", "u", "n", "c", "e">> :> 283495)
    @@ (<<"l", "b">> :> 4535920) @@ (<<"p", "o", "u", "n", "d">> :> 4535920)

\* The portions of the detail that match the normalized unit and carry a
\* positive gram weight, by position.
MatchingPortions ==
    {k \in 1..Len(inFood.foodPortions) :
        /\ portionMatches(inFood.foodPortions[k], Normalized)
        /\ inFood.foodPortions[k].gramWeight # <<>>
        /\ inFood.foodPortions[k].gramWeight[1] > 0}

\* C17 as stated: for every quantity and every unit of the weight table
\* the mass is quantity * factor and the gram source is `weight`.
C17_WeightTierAsClaimed ==
    (Converted /\ Normalized \in DOMAIN WeightFactor) =>
        /\ Grams = inQuantity * WeightFactor[Normalized]
        /\ GramSource = "weight"

\* C18 as stated: a unit outside the weight table that a portion with a
\* positive gram weight matches gives quantity * gramWeight of the first
\* such portion with gram source `portion`, also when the unit is empty.
C18_PortionTierAsClaimed ==
    (Converted /\ Normalized \notin DOMAIN WeightFactor /\ MatchingPortions # {}) =>
        /\ Grams = inQuantity
                     * inFood.foodPortions[Min(MatchingPortions)].gramWeight[1] * E4
        /\ GramSource = "portion"

\* C19 as stated: an empty normalized unit that no portion matches gives
\* grams = quantity with gram source `assumed_grams`.
C19_EmptyUnitAsClaimed ==
    (Converted /\ Normalized = <<>> /\ MatchingPortions = {}) =>
        /\ Grams = inQuantity * E4
        /\ GramSource = "assumed_grams"

\* C20 as stated: the gram source is `fallback_100g`, with quantity * 100
\* grams, exactly when the normalized unit is not empty, is outside the
\* weight table and no portion matches it.
C20_FallbackExactlyAsClaimed ==
    Converted =>
        /\ GramSource = "fallback_100g"
              <=> (/\ Normalized # <<>>
                   /\ Normalized \notin DOMAIN WeightFactor
                   /\ MatchingPortions = {})
        /\ GramSource = "fallback_100g" => Grams = inQuantity * 100 * E4

----------------------------------------------------------------------------
(* usdaClient.ts: getCalories (CalorieResolver by name), lines 52-64,       *)
(* 171-178, with the requests it sends.                                     *)

MaxResolves == 2

\* Lines 101-111: the parameters of a search request (the api key left out).
searchRequest(query, limit, dataType) ==
    [kind |-> "search", query |-> trim(query), pageSize |-> toDecimal(limit),
     dataType |-> dataType, fdcId |-> 0]

\* Line 192: the request for one food detail.
detailRequest(fdcId) ==
    [kind |-> "detail", query |-> <<>>, pageSize |-> <<>>, dataType |-> None,
     fdcId |-> fdcId]

\* Variant: a search over every data type with the default limit.
searchFoodRequestUnrestricted(name) == searchRequest(name, 10, None)

\* Line 173: searchFood asks for one Foundation food.
searchFoodRequest(name) == searchRequest(name, 1, Some("Foundation"))

\* Line 58, `if (!fdcId)`: a missing fdcId and the fdcId 0 are not usable.
usableFdcId(fdcId) == IsSome(fdcId) /\ fdcId[1] # 0

ResolveQuantities == {1, 2}
ResolveUnits == {unitG, <<>>, sCup}
ResolveNames == {nameA, <<" ", "b">>, nameX}

\* What the search endpoint answers to the query that is sent.
ResolveResponses(name) == SearchResponses(trim(name))

resolveOnly ==
    /\ loopIdle
    /\ UNCHANGED <<db, entry, callVars, searchVars, unitVars>>
    /\ UNCHANGED <<batchVars, retryVars, eventVars, lastVars>>

\* Lines 56 and 173: getCalories calls searchFood, which sends the search.
GetCalories(quantity, unit, name) ==
    /\ byName.pc \in {"idle", "returned", "threw"}
    /\ searches < MaxResolves
    /\ byName' = [IdleByName EXCEPT !.pc = "searching", !.quantity = quantity,
                                    !.unit = unit, !.name = name]
    /\ requests' = <<searchFoodRequest(name)>>
    /\ searches' = searches + 1
    /\ UNCHANGED <<table, fetches>>
    /\ resolveOnly

\* Lines 174-177, 57-63 and 180-191: the search has answered; the call
\* throws, or goes on to getCaloriesByFdcId and its getFoodDetails, which
\* returns a cached detail or sends the detail request.
SearchReturn ==
    /\ byName.pc = "searching"
    /\ \E sr \in ResolveResponses(byName.name) :
         IF ~sr.ok
         THEN /\ byName' = [byName EXCEPT !.pc = "threw",
                                          !.error = Some("SearchFailed")]
              /\ UNCHANGED <<requests, fetches>>
         ELSE IF sr.hits = <<>>
         THEN /\ byName' = [byName EXCEPT !.pc = "threw", !.searched = TRUE,
                                          !.results = sr.hits,
                                          !.error = Some("NoFoodsFound")]
              /\ UNCHANGED <<requests, fetches>>
         ELSE IF ~usableFdcId(sr.hits[1].fdcId)
         THEN /\ byName' = [byName EXCEPT !.pc = "threw", !.searched = TRUE,
                                          !.results = sr.hits,
                                          !.error = Some("NoFdcId")]
              /\ UNCHANGED <<requests, fetches>>
         ELSE LET fdcId == sr.hits[1].fdcId[1]
                  cached == getCached(db, table, fdcId)
              IN  IF cacheHit(cached)
                  THEN /\ byName' =
                            [byName EXCEPT
                               !.pc = "returned", !.searched = TRUE,
                               !.results = sr.hits, !.fdcId = Some(fdcId),
                               !.ret = Some(caloriesFromFood(byName.quantity,
                                              byName.unit, fdcId, cached[1]))]
                       /\ UNCHANGED <<requests, fetches>>
                  ELSE /\ byName' = [byName EXCEPT
                                       !.pc = "fetching", !.searched = TRUE,
                                       !.results = sr.hits,
                                       !.fdcId = Some(fdcId)]
                       /\ requests' = Append(requests, detailRequest(fdcId))
                       /\ fetches' = [fetches EXCEPT ![fdcId] = @ + 1]
    /\ UNCHANGED <<table, searches>>
    /\ resolveOnly

\* Lines 193-210 and 70-93: the detail request has answered.
DetailReturn ==
    /\ byName.pc = "fetching"
    /\ \E r \in DetailResponses(byName.fdcId[1]) :
         IF r.ok
         THEN /\ table' = setCached(db, table, byName.fdcId[1], r.data)
              /\ byName' =
                   [byName EXCEPT
                      !.pc = "returned",
                      !.ret = Some(caloriesFromFood(byName.quantity, byName.unit,
                                                    byName.fdcId[1], r.data))]
         ELSE /\ byName' = [byName EXCEPT !.pc = "threw",
                                          !.error = Some("DetailFailed")]
              /\ table' = table
    /\ UNCHANGED <<requests, fetches, searches>>
    /\ resolveOnly

\* A process that has opened the cache (server) or has not (CLI), before
\* its first call.
processIdle(e, dbh) ==
    /\ db = dbh
    /\ table = EmptyTable
    /\ entry = e
    /\ fetches = [id \in FdcIds |-> 0]
    /\ searches = 0
    /\ call = [c \in Callers |-> IdleCall]
    /\ lastPut = [id \in FdcIds |-> None]
    /\ pc = "start"
    /\ target = 0
    /\ recipeJson = NoRecipe
    /\ extracted = NoRecipe
    /\ changesLog = <<>>
    /\ i = 0
    /\ total = 0
    /\ lines = <<>>
    /\ idx = 1
    /\ acc = 0
    /\ evals = 0
    /\ adjusts = 0
    /\ payload = None
    /\ gotChanges = FALSE
    /\ calorieDelta = None
    /\ result = None
    /\ searchIdle
    /\ unitIdle

InitResolve ==
    /\ \/ processIdle("server", "open")
       \/ processIdle("cli", "null")
    /\ restIdle

NextResolve ==
    \/ \E quantity \in ResolveQuantities, unit \in ResolveUnits,
          name \in ResolveNames : GetCalories(quantity, unit, name)
    \/ SearchReturn
    \/ DetailReturn

SpecResolve == InitResolve /\ [][NextResolve]_vars

----------------------------------------------------------------------------
(* Properties of getCalories, checked under SpecResolve.                    *)

NotFoundErrors == {Some("NoFoodsFound"), Some("NoFdcId")}

NoUsableHit(results) == results = <<>> \/ results[1].fdcId = <<>>

\* C21: a by-name call sends exactly one search, for the trimmed name with
\* limit 1 in the Foundation data type.  If the search answers with no hit
\* or with a first hit without id, the call fails with a not-found error
\* and has sent no detail request and left the cache as it was; otherwise
\* it goes on with the id of the first hit only.
C21_ByNameResolution ==
    [][/\ byName'.pc # "idle" =>
            /\ requests'[1] = [kind |-> "search", query |-> trim(byName'.name),
                               pageSize |-> <<"1">>,
                               dataType |-> <<"Foundation">>, fdcId |-> 0]
            /\ \A k \in 2..Len(requests') :
                 /\ requests'[k].kind = "detail"
                 /\ ~NoUsableHit(byName'.results)
                 /\ requests'[k].fdcId = byName'.results[1].fdcId[1]
       /\ (byName.pc = "searching" /\ byName'.searched
             /\ NoUsableHit(byName'.results)) =>
            /\ byName'.pc = "threw"
            /\ byName'.error \in NotFoundErrors
            /\ Len(requests') = 1
            /\ fetches' = fetches
            /\ table' = table
       /\ byName'.error \in NotFoundErrors =>
            byName'.searched /\ NoUsableHit(byName'.results)
       /\ (byName.pc = "searching" /\ byName'.searched
             /\ ~NoUsableHit(byName'.results)) =>
            /\ byName'.pc \in {"fetching", "returned"}
            /\ byName'.fdcId = byName'.results[1].fdcId
            /\ byName'.pc = "returned" =>
                   byName'.ret[1].meta.fdcId = byName'.results[1].fdcId[1]
      ]_vars

\* A second call ended with a not-found error for a hit without id while
\* the cache holds the detail the first call stored.
C21_Witness ==
    /\ byName.pc = "threw"
    /\ byName.error = Some("NoFdcId")
    /\ byName.results # <<>>
    /\ searches = 2
    /\ \E id \in FdcIds : Held(db, table, id) # <<>>

----------------------------------------------------------------------------
(* Properties of the energy extraction and of the calorie formula, checked  *)
(* under SpecUnits.                                                         *)

KcalPer100g == outCalories[1].meta.kcal_per_100g
Calories == outCalories[1].calories

\* The id, unit, name and value of a nutrient, in its flat or nested form.
IdOf(n) ==
    IF n.nutrientId # <<>> THEN n.nutrientId
    ELSE IF n.nutrient # <<>> THEN n.nutrient[1].id ELSE <<>>
UnitOf(n) ==
    IF n.unitName # <<>> THEN n.unitName[1]
    ELSE IF n.nutrient # <<>> /\ n.nutrient[1].unitName # <<>>
         THEN n.nutrient[1].unitName[1] ELSE <<>>
NameOf(n) ==
    IF n.nutrientName # <<>> THEN n.nutrientName[1]
    ELSE IF n.nutrient # <<>> /\ n.nutrient[1].name # <<>>
         THEN n.nutrient[1].name[1] ELSE <<>>
ValueOf(n) ==
    IF n.value # <<>> THEN n.value[1]
    ELSE IF n.amount # <<>> THEN n.amount[1] ELSE 0

\* Positions of the nutrients with the canonical id, and of the nutrients in
\* kcal whose name is or starts with Energy.
CanonicalAt ==
    {k \in 1..Len(inFood.foodNutrients) : IdOf(inFood.foodNutrients[k]) = <<1008>>}
KcalEnergyAt ==
    {k \in 1..Len(inFood.foodNutrients) :
        /\ toLowerCase(UnitOf(inFood.foodNutrients[k])) = <<"k", "c", "a", "l">>
        /\ Len(NameOf(inFood.foodNutrients[k])) >= 6
        /\ SubSeq(NameOf(inFood.foodNutrients[k]), 1, 6)
               = <<"E", "n", "e", "r", "g", "y">>}

\* C22 as stated: a nutrient with id 1008 decides wherever it sits in the
\* list; a kcal nutrient named Energy... decides only when there is none.
C22_CanonicalIdFirstAsClaimed ==
    Converted =>
        /\ CanonicalAt # {} =>
              KcalPer100g = ValueOf(inFood.foodNutrients[Min(CanonicalAt)])
        /\ (CanonicalAt = {} /\ KcalEnergyAt # {}) =>
              KcalPer100g = ValueOf(inFood.foodNutrients[Min(KcalEnergyAt)])

\* C23: a detail without energy nutrient gives a result with 0 kcal per
\* 100 g and 0 calories, for every quantity and unit.
C23_NoEnergyIsZero ==
    (CanonicalAt = {} /\ KcalEnergyAt = {}) =>
        /\ ENABLED Convert \/ Converted
        /\ Converted => (KcalPer100g = 0 /\ Calories = 0)

\* A detail that has nutrients, none of them an energy nutrient, resolved
\* to a positive mass by its portion.
C23_Witness ==
    /\ Converted
    /\ inFood = DetailNoEnergy
    /\ Grams = 2 * 200 * E4
    /\ Calories = 0

\* C24: the calories are kcalPer100g / 100 * grams of the values in meta
\* (in the units of the model, kcal_per_100g * grams), and the example
\* gives 104 kcal with gram source weight.
C24_CalorieFormula ==
    Converted =>
        /\ Calories = KcalPer100g * Grams
        /\ (inQuantity = 200 /\ inUnit = <<"g">> /\ KcalPer100g = 52) =>
              /\ Calories = 104 * 1000000
              /\ GramSource = "weight"

\* The example, resolved.
C24_Witness ==
    /\ Converted
    /\ inQuantity = 200
    /\ CanonicalAt = {1}
    /\ KcalPer100g = 52
    /\ Calories = 104 * 1000000

----------------------------------------------------------------------------
(* agents/optimizeAgent.ts (part_001, lines 210-305): the batch of          *)
(* ingredientDataAgent calls.                                               *)

MaxIngredients == 2

\* The lists ingredientExtractorAgent may return (the names of the lines).
ExtractedLists ==
    UNION {[1..n -> {nameA, nameB}] : n \in 0..MaxIngredients}

\* An entry of errors.log: the context logError was called with.
ErrorEntry(context, subject, attempt, error) ==
    [context |-> context, subject |-> subject, attempt |-> attempt,
     error |-> error]

\* Line 110-113: data of a found ingredient; an empty description is
\* replaced by the ingredient text.
IngredientData(id, description, ingredientText) ==
    [id |-> id,
     description |-> IF description = <<>> THEN ingredientText ELSE description]

\* How one ingredientDataAgent(name) call may end (lines 31-153): it is
\* rejected when a statement outside its try block throws (getLLMClient);
\* inside the try block a failed agent.invoke, an answer without id and a
\* failed getFoodDetails all end in success = false, a detail in
\* success = true.
AgentOutcomes(ingredientText) ==
    {[state |-> "rejected", success |-> FALSE, data |-> None,
      error |-> Some("getLLMClient")]}
      \cup {[state |-> "fulfilled", success |-> FALSE, data |-> None,
             error |-> e] : e \in {Some("invoke"), None, Some("getFoodDetails")}}
      \cup {[state |-> "fulfilled", success |-> TRUE,
             data |-> Some(IngredientData(id, d, ingredientText)),
             error |-> None]
               : id \in FdcIds, d \in {<<>>, <<"o", "i", "l">>}}

PendingAgent == [state |-> "pending", success |-> FALSE, data |-> None,
                 error |-> None]

\* Variant: the loop over the results stops at the first result that is
\* not a success.
RECURSIVE collectUntilFailure(_, _, _)
collectUntilFailure(results, ingredients, k) ==
    IF k > Len(results)
    THEN [successfulResults |-> <<>>, allIngredientTraces |-> <<>>, logged |-> <<>>]
    ELSE IF results[k].state = "fulfilled" /\ results[k].success
                /\ IsSome(results[k].data)
    THEN LET rest == collectUntilFailure(results, ingredients, k + 1)
         IN [successfulResults |-> <<results[k].data[1]>> \o rest.successfulResults,
             allIngredientTraces |->
                 <<[ingredient |-> ingredients[k], success |-> TRUE]>>
                     \o rest.allIngredientTraces,
             logged |-> rest.logged]
    ELSE [successfulResults |-> <<>>,
          allIngredientTraces |->
              <<[ingredient |-> ingredients[k], success |-> FALSE]>>,
          logged |-> <<>>]

\* Lines 238-273: the loop over results[k..] of Promise.allSettled.
RECURSIVE collect(_, _, _)
collect(results, ingredients, k) ==
    IF k > Len(results)
    THEN [successfulResults |-> <<>>, allIngredientTraces |-> <<>>, logged |-> <<>>]
    ELSE LET rest == collect(results, ingredients, k + 1)
         IN  IF results[k].state = "fulfilled"
             THEN IF results[k].success /\ IsSome(results[k].data)
                  THEN [successfulResults |->
                            <<results[k].data[1]>> \o rest.successfulResults,
                        allIngredientTraces |->
                            <<[ingredient |-> ingredients[k], success |-> TRUE]>>
                                \o rest.allIngredientTraces,
                        logged |-> rest.logged]
                  ELSE [successfulResults |-> rest.successfulResults,
                        allIngredientTraces |->
                            <<[ingredient |-> ingredients[k], success |-> FALSE]>>
                                \o rest.allIngredientTraces,
                        logged |-> rest.logged]
             ELSE [successfulResults |-> rest.successfulResults,
                   allIngredientTraces |->
                       <<[ingredient |-> ingredients[k], success |-> FALSE]>>
                           \o rest.allIngredientTraces,
                   logged |-> <<ErrorEntry("optimizeAgent", ingredients[k], 0,
                                           results[k].error)>> \o rest.logged]

\* Promise.allSettled, line 229: settled once no call is pending.
allSettled(promises) ==
    \A k \in 1..Len(promises) : promises[k].state # "pending"

batchOnly ==
    /\ loopIdle
    /\ UNCHANGED <<cacheVars, entry, netVars, callVars, searchVars, unitVars>>
    /\ UNCHANGED <<resolveVars, retry, eventVars, lastVars>>

\* Lines 229-304 once every call has settled; nothing before that.
afterAllSettled(b, promises) ==
    IF allSettled(promises)
    THEN LET c == collect(promises, b.ingredients, 1)
         IN  [batch |-> [b EXCEPT !.pc = "done"],
              traces |-> c.allIngredientTraces,
              output |-> Some(c.successfulResults),
              logged |-> c.logged]
    ELSE [batch |-> [b EXCEPT !.pc = "awaiting"], traces |-> <<>>,
          output |-> None, logged |-> <<>>]

\* Lines 213-229: the extraction fails and its error is logged and thrown
\* again, or it returns the ingredients and one ingredientDataAgent call is
\* started for each.
OptimizeStart ==
    /\ batch.pc = "idle"
    /\ \/ /\ batch' = [batch EXCEPT !.pc = "threw",
                                    !.error = Some("ingredientExtraction")]
          /\ errorLog' = Append(errorLog,
                 ErrorEntry("optimizeAgent", <<>>, 0, Some("ingredientExtraction")))
          /\ UNCHANGED <<agents, traces, output>>
       \/ \E ingredients \in ExtractedLists :
            LET started == [k \in 1..Len(ingredients) |-> PendingAgent]
                a == afterAllSettled([batch EXCEPT !.ingredients = ingredients],
                                     started)
            IN  /\ agents' = started
                /\ batch' = a.batch
                /\ traces' = a.traces
                /\ output' = a.output
                /\ errorLog' = errorLog \o a.logged
    /\ batchOnly

\* One ingredientDataAgent call ends; an error caught inside it is logged
\* by it (lines 122-136).  When it was the last one, optimizeAgent goes on.
AgentSettle(k) ==
    /\ batch.pc = "awaiting"
    /\ k \in 1..Len(agents)
    /\ agents[k].state = "pending"
    /\ \E o \in AgentOutcomes(batch.ingredients[k]) :
         LET settledAgents == [agents EXCEPT ![k] = o]
             a == afterAllSettled(batch, settledAgents)
             caught == IF o.state = "fulfilled" /\ IsSome(o.error)
                       THEN <<ErrorEntry("ingredientDataAgent",
                                         batch.ingredients[k], 0, o.error)>>
                       ELSE <<>>
         IN  /\ agents' = settledAgents
             /\ batch' = a.batch
             /\ traces' = a.traces
             /\ output' = a.output
             /\ errorLog' = errorLog \o caught \o a.logged
    /\ batchOnly

InitBatch ==
    /\ processIdle("server", "open")
    /\ restIdle

NextBatch ==
    \/ OptimizeStart
    \/ \E k \in 1..MaxIngredients : AgentSettle(k)

SpecBatch == InitBatch /\ [][NextBatch]_vars

----------------------------------------------------------------------------
(* Properties of optimizeAgent, checked under SpecBatch.                    *)

Succeeded(k) == agents[k].state = "fulfilled" /\ agents[k].success

\* The data of the calls k.. that succeeded, in the order of extraction.
RECURSIVE DataOfSucceeded(_)
DataOfSucceeded(k) ==
    IF k > Len(agents) THEN <<>>
    ELSE IF Succeeded(k) THEN <<agents[k].data[1]>> \o DataOfSucceeded(k + 1)
         ELSE DataOfSucceeded(k + 1)

\* C25: one call is made per extracted ingredient; a call that fails or is
\* rejected is recorded (a trace without success, and an entry of the error
\* log when an error was raised) and never makes optimizeAgent fail or
\* finish early; the output is the data of the calls that succeeded, in
\* extraction order.
C25_ContinueOnError ==
    /\ batch.pc \in {"awaiting", "done"} => Len(agents) = Len(batch.ingredients)
    /\ batch.pc = "threw" => agents = <<>>
    /\ (\E k \in 1..Len(agents) : agents[k].state = "pending")
          => (batch.pc = "awaiting" /\ output = <<>>)
    /\ batch.pc = "done" =>
          /\ output = <<DataOfSucceeded(1)>>
          /\ Len(traces) = Len(agents)
          /\ \A k \in 1..Len(agents) :
               /\ traces[k].ingredient = batch.ingredients[k]
               /\ traces[k].success = Succeeded(k)
               /\ agents[k].error # <<>> =>
                    \E e \in 1..Len(errorLog) :
                       /\ errorLog[e].subject = batch.ingredients[k]
                       /\ errorLog[e].error = agents[k].error

\* The first of two calls was rejected and the second one succeeded: the
\* output is the data of the second.
C25_Witness ==
    /\ batch.pc = "done"
    /\ Len(agents) = 2
    /\ agents[1].state = "rejected"
    /\ Succeeded(2)
    /\ output = <<<<agents[2].data[1]>>>>

----------------------------------------------------------------------------
(* utils/eventLogger.ts: the EventLogger.                                   *)

MaxEvents == 11
MaxClock == 1

\* `event_${n}`: the prefix and the decimal digits of the counter.
eventId(n) == <<"event_">> \o toDecimal(n)

\* Variant: the new event is put in front of the others.
logEventAtFront(evs, counter, now, event, metadata) ==
    [events |-> <<[id |-> eventId(counter), timestamp |-> now, event |-> event,
                   metadata |-> metadata]>> \o evs,
     eventIdCounter |-> counter + 1]

\* logEvent, lines 34-44, on the instance's events and eventIdCounter, at
\* the time `now` (no listener is registered).
logEvent(evs, counter, now, event, metadata) ==
    [events |-> Append(evs, [id |-> eventId(counter), timestamp |-> now,
                             event |-> event, metadata |-> metadata]),
     eventIdCounter |-> counter + 1]

\* getAllEvents, lines 60-63: a copy of the array.
getAllEvents(evs) == [k \in 1..Len(evs) |-> evs[k]]

AgentEvent(type, args) == [type |-> type, args |-> args]

eventsOnly ==
    /\ loopIdle
    /\ UNCHANGED <<cacheVars, entry, netVars, callVars, searchVars, unitVars>>
    /\ UNCHANGED <<resolveVars, batchVars, retryVars, lastVars>>

\* A caller logs an event.
LogEvent(event, metadata) ==
    /\ Len(events) < MaxEvents
    /\ LET l == logEvent(events, eventIdCounter, clock, event, metadata)
       IN  /\ events' = l.events
           /\ eventIdCounter' = l.eventIdCounter
    /\ UNCHANGED <<clock, snapshot>>
    /\ eventsOnly

\* A caller reads the log.
GetAllEvents ==
    /\ snapshot' = Some(getAllEvents(events))
    /\ snapshot' # snapshot
    /\ UNCHANGED <<events, eventIdCounter, clock>>
    /\ eventsOnly

\* clearEvents, lines 67-71.
ClearEvents ==
    /\ events # <<>>
    /\ events' = <<>>
    /\ eventIdCounter' = 0
    /\ UNCHANGED <<clock, snapshot>>
    /\ eventsOnly

\* Time passes: Date.now() of a clock that is not set back.
Tick ==
    /\ clock < MaxClock
    /\ clock' = clock + 1
    /\ UNCHANGED <<events, eventIdCounter, snapshot>>
    /\ eventsOnly

InitEvents ==
    /\ processIdle("server", "open")
    /\ restIdle

NextEvents ==
    \/ LogEvent(AgentEvent("start", <<>>), [agent |-> "ingredientData"])
    \/ GetAllEvents
    \/ ClearEvents
    \/ Tick

SpecEvents == InitEvents /\ [][NextEvents]_vars

----------------------------------------------------------------------------
(* Properties of the EventLogger, checked under SpecEvents.                 *)

DigitValue(c) == CHOOSE d \in 0..9 : Digits[d + 1] = c

\* The number an id carries after its prefix.
RECURSIVE DecimalValue(_)
DecimalValue(digits) ==
    IF digits = <<>> THEN 0
    ELSE 10 * DecimalValue(SubSeq(digits, 1, Len(digits) - 1))
            + DigitValue(digits[Len(digits)])

IdNumber(id) == DecimalValue(Tail(id))

\* C29: a step that adds to the log appends exactly one event behind the
\* unchanged earlier ones, and the number of its id and its timestamp are
\* not smaller than those of every earlier event of the log; the log
\* changes in no other way except by clearEvents; getAllEvents returns the
\* events in the order of the log.
C29_AppendOnlyInEmissionOrder ==
    [][/\ events' # events =>
            \/ /\ Len(events') = Len(events) + 1
               /\ SubSeq(events', 1, Len(events)) = events
               /\ events'[Len(events')].id[1] = "event_"
               /\ \A k \in 1..Len(events) :
                    /\ IdNumber(events'[Len(events')].id) >= IdNumber(events[k].id)
                    /\ events'[Len(events')].id # events[k].id
                    /\ events'[Len(events')].timestamp >= events[k].timestamp
            \/ /\ events' = <<>>
               /\ eventIdCounter' = 0
       /\ snapshot' # snapshot => snapshot' = <<events>>
      ]_vars

\* Eleven events logged at two different times: the latest id has two
\* digits, and a copy taken before it still has ten events.
C29_Witness ==
    /\ Len(events) = 11
    /\ events[11].id = <<"event_", "1", "0">>
    /\ events[1].timestamp < events[11].timestamp
    /\ snapshot # <<>>
    /\ Len(snapshot[1]) = 10

----------------------------------------------------------------------------
(* llmClient.ts: the model of createAgent, wrapped by withRetry (lines      *)
(* 278-298), with the onRetry callback of ingredientDataAgent (part_001,    *)
(* lines 84-93).                                                            *)

maxRetries == 6

ModelErrors == {"rate limit", "timeout"}

RECURSIVE pow2(_)
pow2(n) == IF n = 0 THEN 1 ELSE 2 * pow2(n - 1)

\* Variant: a delay that grows by one second per attempt.
estimatedDelayLinear(attemptNumber) ==
    IF 1000 * attemptNumber < 60000 THEN 1000 * attemptNumber ELSE 60000

\* Line 294: Math.min(1000 * Math.pow(2, attemptNumber - 1), 60000).
estimatedDelay(attemptNumber) ==
    IF 1000 * pow2(attemptNumber - 1) < 60000
    THEN 1000 * pow2(attemptNumber - 1) ELSE 60000

\* Variant: one attempt more than stopAfterAttempt.
attemptsLeftOneMore(attemptNumber) == attemptNumber <= maxRetries

\* stopAfterAttempt: maxRetries (line 283): another attempt follows a failed
\* one while fewer than maxRetries attempts have been made.
attemptsLeft(attemptNumber) == attemptNumber < maxRetries

retryOnly ==
    /\ loopIdle
    /\ UNCHANGED <<cacheVars, entry, netVars, callVars, searchVars, unitVars>>
    /\ UNCHANGED <<resolveVars, batchVars, clock, snapshot, lastVars>>

\* The agent calls the model: the first attempt starts.  `onRetry` tells
\* whether the agent was created with an onRetry callback.
ModelCall(onRetry) ==
    /\ retry.pc = "idle"
    /\ retry' = [retry EXCEPT !.pc = "attempting", !.attemptNumber = 1,
                              !.onRetry = onRetry]
    /\ UNCHANGED <<errorLog, events, eventIdCounter>>
    /\ retryOnly

\* The attempt succeeds.
AttemptSucceeds ==
    /\ retry.pc = "attempting"
    /\ retry' = [retry EXCEPT !.pc = "returned"]
    /\ UNCHANGED <<errorLog, events, eventIdCounter>>
    /\ retryOnly

\* The attempt fails: onFailedAttempt (lines 284-297) logs the error and
\* calls onRetry, whose event ingredientDataAgent logs; then the next
\* attempt starts, or the error of this attempt is thrown.
AttemptFails(error) ==
    /\ retry.pc = "attempting"
    /\ errorLog' = Append(errorLog,
           ErrorEntry("langchain_retry", <<>>, retry.attemptNumber, Some(error)))
    /\ IF retry.onRetry
       THEN LET l == logEvent(events, eventIdCounter, clock,
                        AgentEvent("retry",
                                   <<retry.attemptNumber, maxRetries,
                                     estimatedDelay(retry.attemptNumber)>>),
                        [agent |-> "ingredientData"])
            IN  /\ events' = l.events
                /\ eventIdCounter' = l.eventIdCounter
       ELSE UNCHANGED <<events, eventIdCounter>>
    /\ IF attemptsLeft(retry.attemptNumber)
       THEN retry' = [retry EXCEPT !.attemptNumber = @ + 1,
                                   !.failures = Append(@, error)]
       ELSE retry' = [retry EXCEPT !.pc = "threw",
                                   !.failures = Append(@, error),
                                   !.thrown = Some(error)]
    /\ retryOnly

InitRetry ==
    /\ processIdle("server", "open")
    /\ restIdle

NextRetry ==
    \/ \E onRetry \in BOOLEAN : ModelCall(onRetry)
    \/ AttemptSucceeds
    \/ \E error \in ModelErrors : AttemptFails(error)

SpecRetry == InitRetry /\ [][NextRetry]_vars

----------------------------------------------------------------------------
(* Properties of the retries, checked under SpecRetry.                      *)

----------------------------------------------------------------------------
(* NutritionSource calls and retries, checked under SpecResolve.            *)

RequestsOfKind(kind) ==
    Cardinality({k \in 1..Len(requests) : requests[k].kind = kind})

\* C28 as stated: the error of a failing search or detail request reaches
\* the caller only after the request has been tried the maximum number of
\* times.
C28_SourceCallsRetriedAsClaimed ==
    /\ (byName.pc = "threw" /\ byName.error = <<"SearchFailed">>)
          => RequestsOfKind("search") = maxRetries
    /\ (byName.pc = "threw" /\ byName.error = <<"DetailFailed">>)
          => RequestsOfKind("detail") = maxRetries

----------------------------------------------------------------------------
(* The argument of the adjustment (cli.ts lines 171-193).                   *)

\* C30: requestRecipeAdjustment is invoked only from a state whose latest
\* evaluation left a total above the target and outside the tolerance, and
\* the calorieDelta it receives is that total minus the target, a strictly
\* positive number.
C30_AdjustOnlyAboveTarget ==
    [][adjusts' # adjusts =>
          /\ evals >= 1
          /\ total > target
          /\ Abs(total - target) > target \div TolerancePerUnit
          /\ calorieDelta' = Some(total - target)
          /\ calorieDelta'[1] > 0
          /\ total' = total]_vars

C30_Witness ==
    /\ adjusts = 2
    /\ target = 100 * 1000000
    /\ calorieDelta = Some(total - target)
    /\ total > target + target \div TolerancePerUnit

----------------------------------------------------------------------------
(* cli.ts: the change log of runOptimizer, with the `history` argument and  *)
(* the `changes` member of every requestRecipeAdjustment call recorded.    *)

\* The recipe extracted: one line far above the target.
LogRecipe == [title |-> Some("T1"), ingredients |-> List(<<a200>>)]

\* `changes` members of the payloads: a value that is not an array, an array
\* of a string and a number, an array holding null.
LogChanges ==
    {NotIterable, List(<<JText(<<"a">>), QNum(5)>>), List(<<JNull>>)}

\* Payloads that keep the ingredient list or replace it by a smaller line.
LogPayloads ==
    {[title |-> None, ingredients |-> g, changes |-> c] :
        g \in {Missing, List(<<a50>>)}, c \in LogChanges}

\* Lines 186-201, as Adjust, with the arguments and the answer recorded.
AdjustLogged ==
    /\ AdjustCall
    /\ \/ \E p \in LogPayloads :
            /\ AdjustReturns(p)
            /\ adjustments' = Append(adjustments,
                   [history |-> changesLog, returned |-> TRUE,
                    changes |-> p.changes])
       \/ /\ AdjustThrows
          /\ adjustments' = Append(adjustments,
                 [history |-> changesLog, returned |-> FALSE,
                  changes |-> Missing])
    /\ UNCHANGED <<resolveVars, batchVars, retryVars, eventVars>>
    /\ UNCHANGED <<norm, runs, clients>>

InitLog ==
    /\ Init
    /\ target = 100 * 1000000

NextLog ==
    \/ ParseRecipeFrom({LogRecipe})
    \/ ForHead
    \/ ResolveLine
    \/ Check
    \/ AdjustLogged

SpecLog == InitLog /\ [][NextLog]_vars

----------------------------------------------------------------------------
(* Properties of the change log, checked under SpecLog.                     *)

\* The entries of the array of changes invocation k returned; none when it
\* threw or returned no array.
ReturnedChanges(k) ==
    IF adjustments[k].changes.kind = "list"
    THEN adjustments[k].changes.items ELSE <<>>

\* The entries returned by invocations 1..k, in order.
RECURSIVE ReturnedUpTo(_)
ReturnedUpTo(k) ==
    IF k = 0 THEN <<>> ELSE ReturnedUpTo(k - 1) \o ReturnedChanges(k)

\* A log of strings holds exactly the given JSON values.
SameEntries(log, values) ==
    /\ Len(log) = Len(values)
    /\ \A j \in 1..Len(log) :
         values[j].kind = "string" /\ values[j].v = log[j]

\* C31 as stated: the log is the concatenation of the returned lists, and
\* each invocation received the concatenation of the lists before it.
C31_LogIsConcatenationAsClaimed ==
    /\ SameEntries(changesLog, ReturnedUpTo(Len(adjustments)))
    /\ \A k \in 1..Len(adjustments) :
         SameEntries(adjustments[k].history, ReturnedUpTo(k - 1))

\* C31 (amended): after the k-th invocation the log holds, in order, the
\* entries of the arrays of changes returned by invocations 1..k, each
\* converted to a string; the k-th invocation received the log of
\* invocations 1..k-1; no step removes or alters an entry of the log.
C31_LogIsConcatenationOfStrings ==
    /\ [](/\ Len(adjustments) = adjusts
          /\ changesLog = mapString(ReturnedUpTo(Len(adjustments)))
          /\ \A k \in 1..Len(adjustments) :
               adjustments[k].history = mapString(ReturnedUpTo(k - 1)))
    /\ [][/\ Len(changesLog') >= Len(changesLog)
          /\ SubSeq(changesLog', 1, Len(changesLog)) = changesLog]_vars

\* Eight invocations; the first returned a string and a number, a later one
\* no array, the last one an array holding null.
C31_Witness ==
    /\ Len(adjustments) = MAX_ITERATIONS
    /\ adjustments[1].changes = List(<<JText(<<"a">>), QNum(5)>>)
    /\ adjustments[2].changes = NotIterable
    /\ adjustments[MAX_ITERATIONS].changes = List(<<JNull>>)
    /\ adjustments[MAX_ITERATIONS].history # <<>>
    /\ changesLog[2] = <<"5">>
    /\ changesLog[Len(changesLog)] = <<"n", "u", "l", "l">>

----------------------------------------------------------------------------
(* Properties of what runOptimizer returns and of a failing evaluation,     *)
(* checked under Spec.                                                      *)

\* C32: a returned result carries the warning exactly when the run made
\* MAX_ITERATIONS adjustments, each after an evaluation above the target
\* and outside the tolerance; a result without warning was returned for a
\* total within tolerance or below the target.
C32_WarningIffExhausted ==
    pc = "done" =>
        /\ result[1].kind = "return"
        /\ HasWarning <=> adjusts = MAX_ITERATIONS
        /\ HasWarning =>
              /\ evals = MAX_ITERATIONS
              /\ i = MAX_ITERATIONS
              /\ AboveBeyondTolerance(total, target)
        /\ ~HasWarning =>
              /\ WithinOfTarget(total, target) \/ total < target
              /\ evals = adjusts + 1

\* Seven adjustments, then an evaluation within tolerance: no warning.
C32_Witness ==
    /\ pc = "done"
    /\ adjusts = MAX_ITERATIONS - 1
    /\ evals = MAX_ITERATIONS
    /\ WithinOfTarget(total, target)
    /\ ~HasWarning

\* C34 as stated: the recipe of a returned result is the recipe whose lines
\* the latest evaluation resolved, and total_calories is the total of that
\* evaluation.
C34_TotalOfReturnedRecipeAsClaimed ==
    (pc = "done" /\ result[1].kind = "return") =>
        /\ result[1].total_calories = total
        /\ ~normalizeRecipe(result[1].recipe).threw
        /\ normalizeRecipe(result[1].recipe).ingredients = lines

\* C37: the lines of an evaluation are resolved one after the other from
\* the first; a step that fails to resolve a line ends the run with the
\* not-found or upstream error, records no total, and no step follows it.
C37_FailingLineFailsRun ==
    [][/\ pc # "failed"
       /\ pc = "eval" =>
            /\ idx \in 1..Len(lines)
            /\ searches' = searches + 1
            /\ adjusts' = adjusts
            /\ \/ /\ pc' = "failed"
                  /\ result'[1].kind = "throw"
                  /\ result'[1].error \in {"NotFound", "UpstreamError"}
                  /\ UNCHANGED <<idx, acc, total, evals>>
               \/ /\ idx' = idx + 1
                  /\ result' = result
                  /\ IF idx = Len(lines)
                     THEN pc' = "check" /\ evals' = evals + 1 /\ total' = acc'
                     ELSE pc' = "eval" /\ UNCHANGED <<total, evals>>
       /\ pc' = "eval" /\ pc # "eval" => idx' = 1 /\ acc' = 0
      ]_vars

\* The second line of the second evaluation could not be resolved: one
\* evaluation and one adjustment are recorded, nothing of the second.
C37_Witness ==
    /\ pc = "failed"
    /\ result[1].error \in {"NotFound", "UpstreamError"}
    /\ idx = 2
    /\ Len(lines) = 2
    /\ evals = 1
    /\ adjusts = 1

----------------------------------------------------------------------------
(* cli.ts: normalizeRecipe (lines 91-103) applied to a recipe.               *)

MaxLines == 3

\* Items a recipe may hold: usable ones (one of them untrimmed, one with a
\* quantity written as a string), and items with a zero, negative, missing,
\* non-numeric or infinite quantity or a blank name.
NormItems ==
    {a200, a100, Item(QNumeral(2), unitG, nameB), zeroQ,
     Item(QNum(0 - 3), unitG, nameA), noQ, nanQ,
     Item(QInfinity, unitG, nameA), blank}

NormRecipes ==
    {[title |-> None, ingredients |-> g] :
        g \in {Missing, NotIterable}
                \cup {List(items) :
                         items \in UNION {[1..n -> NormItems] : n \in 0..MaxLines}}}

\* The call on a recipe.
Normalize(recipe) ==
    /\ norm = None
    /\ norm' = Some([recipe |-> recipe, ret |-> normalizeRecipe(recipe)])
    /\ loopIdle
    /\ UNCHANGED <<cacheVars, entry, netVars, callVars, searchVars, unitVars>>
    /\ UNCHANGED <<resolveVars, batchVars, retryVars, eventVars>>
    /\ UNCHANGED <<adjustments, runs, clients>>

InitNormalize ==
    /\ processIdle("cli", "null")
    /\ restIdle

NextNormalize == \E recipe \in NormRecipes : Normalize(recipe)

SpecNormalize == InitNormalize /\ [][NextNormalize]_vars

----------------------------------------------------------------------------
(* Properties of normalizeRecipe, checked under SpecNormalize.              *)

\* quantity > 0 as JavaScript evaluates it on the item's quantity.
IsPositive(q) ==
    \/ q.kind \in {"number", "numeral"} /\ q.v > 0
    \/ q.kind = "infinite"

ValidAsClaimed(item) == trim(item.name) # <<>> /\ IsPositive(item.quantity)

ValidAndFinite(item) ==
    /\ trim(item.name) # <<>>
    /\ item.quantity.kind \in {"number", "numeral"}
    /\ item.quantity.v > 0

NormInput == norm[1].recipe.ingredients.items
NormOutput == norm[1].ret.ingredients

\* C33 as stated: the normalized list is made of the input lines with a
\* non-empty trimmed name and a quantity > 0, in their order.
C33_DropsExactlyInvalidAsClaimed ==
    (norm # None /\ ~norm[1].ret.threw) =>
        LET kept == SelectSeq(NormInput, ValidAsClaimed)
        IN  /\ Len(NormOutput) = Len(kept)
            /\ \A k \in 1..Len(kept) : NormOutput[k].name = trim(kept[k].name)

\* C33 (amended): the normalized list is made of the input lines with a
\* non-empty trimmed name and a finite quantity > 0, in their order, with
\* name and unit trimmed and the quantity as a number; every line of the
\* list has a quantity > 0 and a non-empty name.
C33_DropsExactlyInvalidOrInfinite ==
    (norm # None /\ ~norm[1].ret.threw) =>
        LET kept == SelectSeq(NormInput, ValidAndFinite)
        IN  /\ Len(NormOutput) = Len(kept)
            /\ \A k \in 1..Len(kept) :
                 /\ NormOutput[k].name = trim(kept[k].name)
                 /\ NormOutput[k].unit = trim(kept[k].unit)
                 /\ NormOutput[k].quantity = kept[k].quantity.v
                 /\ NormOutput[k].quantity > 0
                 /\ NormOutput[k].name # <<>>

\* An untrimmed usable line between a line with an infinite quantity and a
\* line with a blank name: it alone is kept, trimmed.
C33_Witness ==
    /\ norm # None
    /\ norm[1].recipe.ingredients =
          List(<<Item(QInfinity, unitG, nameA), a100, blank>>)
    /\ NormOutput = <<[quantity |-> 100, unit |-> <<"G", "s">>, name |-> nameA]>>

----------------------------------------------------------------------------
(* The gram source of a result, checked under SpecUnits.                    *)

\* C35: the gram source a call reports is weight, portion, assumed_grams or
\* fallback_100g, whatever the quantity, the unit and the detail.
C35_GramSourceNeverUnknown ==
    Converted =>
        GramSource \in {"weight", "portion", "assumed_grams", "fallback_100g"}

\* A unit that is no weight unit and matches no portion of the detail: both
\* tiers answer `unknown`, and the call reports fallback_100g.
C35_Witness ==
    /\ Converted
    /\ inQuantity > 0
    /\ unitToGrams(inQuantity, inUnit).source = "unknown"
    /\ gramsFromFoodPortions(inQuantity, inUnit, inFood).source = "unknown"
    /\ GramSource = "fallback_100g"

----------------------------------------------------------------------------
(* A failed detail request and the cache, checked under SpecCache.          *)

\* C36: the step in which a getFoodDetails call receives a response that
\* is not ok ends the call with the error and leaves every row of the
\* cache as it was.
C36_FailedFetchLeavesCache ==
    [][\A c \in Callers :
          (call[c].pc = "fetching" /\ call'[c].pc \notin {"fetching", "returned"}) =>
              /\ call'[c].pc = "threw"
              /\ call'[c].ret = None
              /\ table' = table
              /\ db' = db]_vars

\* With the cache open, a call for an id failed after another call had
\* stored a detail of that id: the row is still the one stored.
C36_Witness ==
    /\ db = "open"
    /\ \E c \in Callers :
         /\ call[c].pc = "threw"
         /\ IsSome(lastPut[call[c].fdcId])
         /\ table[call[c].fdcId] = Some(JSONstringify(lastPut[call[c].fdcId][1]))
         /\ \E id \in FdcIds : table[id] = None

----------------------------------------------------------------------------
(* agents/ingredientDataAgent.ts: calls of ingredientDataAgent, which may   *)
(* overlap (optimizeAgent starts one per ingredient), and their events.     *)

\* The calls under study: two, so that their events can interleave.
AgentCalls == {1, 2}

MaxProgress == 1

\* The metadata of the events of call k (lines 38-41): runId is left out,
\* and `call` tells which call emitted the event.
RunMeta(k, inputText) ==
    [agent |-> "ingredientData", inputText |-> inputText, call |-> k]

\* One more event on a log l = [events, eventIdCounter].
emit(l, event, metadata) ==
    logEvent(l.events, l.eventIdCounter, clock, event, metadata)

\* Lines 120-129: the catch block logs an error event.
catchBlock(l, metadata, error) ==
    emit(l, AgentEvent("error", <<error>>), metadata)

\* Variant: the end event is logged at the end of the try block, so not
\* after the catch block has run.
finishInsideTry(l, metadata, success, caught) ==
    IF caught THEN l ELSE emit(l, AgentEvent("end", <<success>>), metadata)

\* Lines 139-146: the end event, after the try statement.
finish(l, metadata, success, caught) ==
    emit(l, AgentEvent("end", <<success>>), metadata)

\* `if (agentResult.id)`: null and 0 are falsy.
hasId(id) == IsSome(id) /\ id[1] # 0

\* What agent.invoke may resolve to: { id: null }, { id: 0 }, { id: 1 }.
AgentResults == {None, Some(0), Some(1)}

Result(success, data) == Some([success |-> success, data |-> data])

agentOnly ==
    /\ loopIdle
    /\ UNCHANGED <<cacheVars, entry, netVars, callVars, searchVars, unitVars>>
    /\ UNCHANGED <<resolveVars, batchVars, retry, clock, snapshot>>
    /\ UNCHANGED <<adjustments, norm, clients>>

\* Lines 30-41 and 79-100: getLLMClient throws when no client has been
\* initialized, and the call is rejected before any event; otherwise the
\* start event is logged, the agent is created and agent.invoke is awaited.
AgentStart(inputText, initialized) ==
    /\ Len(runs) + 1 \in AgentCalls
    /\ LET k == Len(runs) + 1
       IN  IF initialized
           THEN LET l == emit([events |-> events,
                               eventIdCounter |-> eventIdCounter],
                              AgentEvent("start", <<>>), RunMeta(k, inputText))
                IN  /\ runs' = Append(runs,
                           [pc |-> "invoking", inputText |-> inputText,
                            progress |-> 0, id |-> None, ret |-> None])
                    /\ events' = l.events
                    /\ eventIdCounter' = l.eventIdCounter
           ELSE /\ runs' = Append(runs,
                       [pc |-> "rejected", inputText |-> inputText,
                        progress |-> 0, id |-> None, ret |-> None])
                /\ UNCHANGED <<events, eventIdCounter>>
    /\ errorLog' = errorLog
    /\ agentOnly

\* While agent.invoke is awaited, the progress middleware and onRetry log
\* events (lines 83-93, llmClientUtils.ts line 25).
AgentProgress(k, type) ==
    /\ k \in 1..Len(runs)
    /\ runs[k].pc = "invoking"
    /\ runs[k].progress < MaxProgress
    /\ LET l == emit([events |-> events, eventIdCounter |-> eventIdCounter],
                     AgentEvent(type, <<>>), RunMeta(k, runs[k].inputText))
       IN  /\ events' = l.events
           /\ eventIdCounter' = l.eventIdCounter
    /\ runs' = [runs EXCEPT ![k].progress = @ + 1]
    /\ errorLog' = errorLog
    /\ agentOnly

\* Lines 100-112: agent.invoke resolves.  Without id the call goes on to
\* line 139; with an id the fetch event is logged and getFoodDetails is
\* awaited, unless getUSDAClient throws, which the catch block handles.
InvokeReturns(k, id, usdaReady) ==
    /\ k \in 1..Len(runs)
    /\ runs[k].pc = "invoking"
    /\ LET meta == RunMeta(k, runs[k].inputText)
           l0 == [events |-> events, eventIdCounter |-> eventIdCounter]
           l1 == emit(l0, AgentEvent("fetch_food_details", <<id>>), meta)
       IN  IF ~hasId(id)
           THEN LET l == finish(l0, meta, FALSE, FALSE)
                IN  /\ events' = l.events
                    /\ eventIdCounter' = l.eventIdCounter
                    /\ runs' = [runs EXCEPT ![k].pc = "returned",
                                            ![k].ret = Result(FALSE, None)]
                    /\ errorLog' = errorLog
           ELSE IF usdaReady
           THEN /\ events' = l1.events
                /\ eventIdCounter' = l1.eventIdCounter
                /\ runs' = [runs EXCEPT ![k].pc = "fetching", ![k].id = id]
                /\ errorLog' = errorLog
           ELSE LET l == finish(catchBlock(l1, meta, "getUSDAClient"), meta,
                                FALSE, TRUE)
                IN  /\ events' = l.events
                    /\ eventIdCounter' = l.eventIdCounter
                    /\ runs' = [runs EXCEPT ![k].pc = "returned", ![k].id = id,
                                            ![k].ret = Result(FALSE, None)]
                    /\ errorLog' = Append(errorLog,
                           ErrorEntry("ingredientDataAgent", runs[k].inputText,
                                      0, Some("getUSDAClient")))
    /\ agentOnly

\* Lines 120-153: agent.invoke rejects (the retries are exhausted, or the
\* answer cannot be parsed).
InvokeThrows(k) ==
    /\ k \in 1..Len(runs)
    /\ runs[k].pc = "invoking"
    /\ LET meta == RunMeta(k, runs[k].inputText)
           l == finish(catchBlock([events |-> events,
                                   eventIdCounter |-> eventIdCounter],
                                  meta, "invoke"), meta, FALSE, TRUE)
       IN  /\ events' = l.events
           /\ eventIdCounter' = l.eventIdCounter
    /\ runs' = [runs EXCEPT ![k].pc = "returned", ![k].ret = Result(FALSE, None)]
    /\ errorLog' = Append(errorLog,
           ErrorEntry("ingredientDataAgent", runs[k].inputText, 0,
                      Some("invoke")))
    /\ agentOnly

\* Lines 112-118 and 139-153: getFoodDetails resolves.
FetchReturns(k, description) ==
    /\ k \in 1..Len(runs)
    /\ runs[k].pc = "fetching"
    /\ LET l == finish([events |-> events, eventIdCounter |-> eventIdCounter],
                       RunMeta(k, runs[k].inputText), TRUE, FALSE)
       IN  /\ events' = l.events
           /\ eventIdCounter' = l.eventIdCounter
    /\ runs' = [runs EXCEPT
                  ![k].pc = "returned",
                  ![k].ret = Result(TRUE,
                       Some(IngredientData(runs[k].id[1], description,
                                           runs[k].inputText)))]
    /\ errorLog' = errorLog
    /\ agentOnly

\* Lines 120-153: getFoodDetails rejects.
FetchThrows(k) ==
    /\ k \in 1..Len(runs)
    /\ runs[k].pc = "fetching"
    /\ LET meta == RunMeta(k, runs[k].inputText)
           l == finish(catchBlock([events |-> events,
                                   eventIdCounter |-> eventIdCounter],
                                  meta, "getFoodDetails"), meta, FALSE, TRUE)
       IN  /\ events' = l.events
           /\ eventIdCounter' = l.eventIdCounter
    /\ runs' = [runs EXCEPT ![k].pc = "returned", ![k].ret = Result(FALSE, None)]
    /\ errorLog' = Append(errorLog,
           ErrorEntry("ingredientDataAgent", runs[k].inputText, 0,
                      Some("getFoodDetails")))
    /\ agentOnly

\* agent.invoke settles, one way or the other.
InvokeSettles(k) ==
    \/ \E id \in AgentResults, usdaReady \in BOOLEAN :
          InvokeReturns(k, id, usdaReady)
    \/ InvokeThrows(k)

\* getFoodDetails settles, one way or the other.
FetchSettles(k) ==
    \/ \E description \in {<<>>, <<"o", "i", "l">>} : FetchReturns(k, description)
    \/ FetchThrows(k)

InitAgent ==
    /\ processIdle("server", "open")
    /\ restIdle

NextAgent ==
    \/ \E initialized \in BOOLEAN : AgentStart(nameA, initialized)
    \/ \E k \in AgentCalls, type \in {"tool_call", "retry"} :
          AgentProgress(k, type)
    \/ \E k \in AgentCalls : InvokeSettles(k)
    \/ \E k \in AgentCalls : FetchSettles(k)

\* Every awaited call settles.
SpecAgent ==
    /\ InitAgent
    /\ [][NextAgent]_vars
    /\ \A k \in AgentCalls :
         WF_vars(InvokeSettles(k)) /\ WF_vars(FetchSettles(k))

----------------------------------------------------------------------------
(* Properties of the events of a call, checked under SpecAgent.             *)

EventsOf(k, type) ==
    {j \in 1..Len(events) :
        events[j].metadata.call = k /\ events[j].event.type = type}

LastEventOf(k) ==
    CHOOSE j \in 1..Len(events) :
        /\ events[j].metadata.call = k
        /\ \A h \in 1..Len(events) : events[h].metadata.call = k => h <= j

\* What every state shows of the end events: at most one per call, none
\* without a start event before it, none while the call is under way; the
\* call that has returned has its end event as its last event, with the
\* success flag of the returned result, which is true exactly when data is
\* not null.
EndEventOfCall(k) ==
    /\ Cardinality(EventsOf(k, "end")) <= 1
    /\ Cardinality(EventsOf(k, "start")) <= 1
    /\ \A j \in EventsOf(k, "end") :
         \E h \in EventsOf(k, "start") : h < j
    /\ k \in 1..Len(runs) =>
         /\ runs[k].pc \in {"invoking", "fetching"} =>
               /\ EventsOf(k, "end") = {}
               /\ Cardinality(EventsOf(k, "start")) = 1
         /\ runs[k].pc = "rejected" =>
               \A j \in 1..Len(events) : events[j].metadata.call # k
         /\ runs[k].pc = "returned" =>
               /\ EventsOf(k, "end") = {LastEventOf(k)}
               /\ events[LastEventOf(k)].event.args = <<runs[k].ret[1].success>>
               /\ runs[k].ret[1].success <=> runs[k].ret[1].data # None

\* C38: a call that has logged its start event eventually logs an end
\* event; it logs one only, as its last event, and the success member of
\* the event is the success flag of the result, which is true exactly
\* when the data of the result is not null.
C38_StartLeadsToOneEnd ==
    /\ [](\A k \in AgentCalls : EndEventOfCall(k))
    /\ \A k \in AgentCalls :
         (EventsOf(k, "start") # {}) ~> (EventsOf(k, "end") # {})

\* Two overlapping calls have returned: the first after a failed detail
\* fetch, the second with data, and the end event of the first lies
\* between events of the second.
C38_Witness ==
    /\ Len(runs) = 2
    /\ runs[1].pc = "returned"
    /\ runs[2].pc = "returned"
    /\ runs[1].ret = Result(FALSE, None)
    /\ EventsOf(1, "error") # {}
    /\ EventsOf(1, "fetch_food_details") # {}
    /\ runs[2].ret[1].success
    /\ \E j \in EventsOf(1, "end") :
         \E h \in EventsOf(2, "start") : \E g \in EventsOf(2, "end") :
            h < j /\ j < g

----------------------------------------------------------------------------
(* usdaClient.ts lines 31-47, llmClient.ts lines 165-189, init.ts lines     *)
(* 9-56: the client singletons.  `clients` holds the two module variables,  *)
(* the number of instances constructed, and the latest call with its        *)
(* argument and outcome.                                                    *)

AlreadyInitialized == <<"already been initialized">>
NotInitialized == <<"has not been initialized">>
MissingVariable == <<"Missing required environment variable">>

\* error.message.includes("already been initialized") on a thrown error.
includesAlready(threw) == IsSome(threw) /\ threw[1] = AlreadyInitialized

\* `new USDANutritionClient(apiKey)` / `new LLMClient(config)`: an object of
\* its own identity (the serial number) holding what it was given.
newInstance(c, given) == Some([serial |-> c.created + 1, given |-> given])

\* Variant: a later initialization replaces the instance.
initializeUSDAClientReplacing(c, apiKey) ==
    [c EXCEPT !.usdaClientInstance = newInstance(c, apiKey),
              !.created = @ + 1, !.threw = None]

\* initializeUSDAClient, lines 33-38.
initializeUSDAClient(c, apiKey) ==
    IF IsSome(c.usdaClientInstance)
    THEN [c EXCEPT !.threw = Some(AlreadyInitialized)]
    ELSE [c EXCEPT !.usdaClientInstance = newInstance(c, apiKey),
                   !.created = @ + 1, !.threw = None]

\* getUSDAClient, lines 40-47.
getUSDAClient(c) ==
    IF ~IsSome(c.usdaClientInstance)
    THEN [c EXCEPT !.threw = Some(NotInitialized), !.ret = None]
    ELSE [c EXCEPT !.threw = None, !.ret = c.usdaClientInstance]

\* initializeLLMClient, llmClient.ts lines 169-175; `constructed` tells
\* whether the constructor of the chat model returned.
initializeLLMClient(c, config, constructed) ==
    IF IsSome(c.llmClientInstance)
    THEN [c EXCEPT !.threw = Some(AlreadyInitialized)]
    ELSE IF ~constructed
    THEN [c EXCEPT !.threw = Some(<<"constructor">>)]
    ELSE [c EXCEPT !.llmClientInstance = newInstance(c, config),
                   !.created = @ + 1, !.threw = None]

\* getLLMClient, llmClient.ts lines 182-189.
getLLMClient(c) ==
    IF ~IsSome(c.llmClientInstance)
    THEN [c EXCEPT !.threw = Some(NotInitialized), !.ret = None]
    ELSE [c EXCEPT !.threw = None, !.ret = c.llmClientInstance]

\* The catch blocks of init.ts lines 19-25 and 49-55.
absorbAlready(c) == IF includesAlready(c.threw) THEN [c EXCEPT !.threw = None] ELSE c

\* initializeClients, init.ts lines 9-56, on the environment env; an unset
\* or empty variable is None.
initializeClients(c, env, constructed) ==
    IF ~IsSome(env.USDA_API_KEY)
    THEN [c EXCEPT !.threw = Some(MissingVariable)]
    ELSE LET c1 == absorbAlready(initializeUSDAClient(c, env.USDA_API_KEY[1]))
             llmProvider == IF IsSome(env.LLM_PROVIDER)
                            THEN env.LLM_PROVIDER[1] ELSE "gemini"
             key == IF llmProvider = "claude"
                    THEN env.ANTHROPIC_API_KEY ELSE env.GEMINI_API_KEY
             provider == IF llmProvider = "claude" THEN "claude" ELSE "gemini"
         IN  IF ~IsSome(key)
             THEN [c1 EXCEPT !.threw = Some(MissingVariable)]
             ELSE absorbAlready(
                     initializeLLMClient(c1,
                         [apiKey |-> key[1], provider |-> provider],
                         constructed))

ApiKeys == {"k1", "k2"}

LLMConfigs == {[apiKey |-> k, provider |-> p] : k \in ApiKeys, p \in {"gemini", "claude"}}

Environments ==
    [USDA_API_KEY : {None, Some("k1"), Some("k2")},
     LLM_PROVIDER : {None, Some("claude")},
     GEMINI_API_KEY : {None, Some("k1")},
     ANTHROPIC_API_KEY : {None, Some("k2")}]

clientsOnly ==
    /\ loopIdle
    /\ UNCHANGED <<cacheVars, entry, netVars, callVars, searchVars, unitVars>>
    /\ UNCHANGED <<resolveVars, batchVars, retryVars, eventVars>>
    /\ UNCHANGED <<adjustments, norm, runs>>

\* A call of one of the five functions; getters leave `ret` to the caller,
\* the other functions return nothing.
ClientCall(name, arg, after) ==
    /\ clients' = [after EXCEPT !.call = name, !.arg = arg,
                                !.ret = IF name \in {"getUSDAClient", "getLLMClient"}
                                        THEN after.ret ELSE None]
    /\ clientsOnly

InitializeUSDAClient(apiKey) ==
    ClientCall("initializeUSDAClient", Some(apiKey),
               initializeUSDAClient(clients, apiKey))

GetUSDAClient == ClientCall("getUSDAClient", None, getUSDAClient(clients))

InitializeLLMClient(config, constructed) ==
    ClientCall("initializeLLMClient", Some(config),
               initializeLLMClient(clients, config, constructed))

GetLLMClient == ClientCall("getLLMClient", None, getLLMClient(clients))

InitializeClients(env, constructed) ==
    ClientCall("initializeClients", Some(env),
               initializeClients(clients, env, constructed))

InitClients ==
    /\ processIdle("server", "open")
    /\ restIdle

NextClients ==
    \/ \E apiKey \in ApiKeys : InitializeUSDAClient(apiKey)
    \/ GetUSDAClient
    \/ \E config \in LLMConfigs, constructed \in BOOLEAN :
          InitializeLLMClient(config, constructed)
    \/ GetLLMClient
    \/ \E env \in Environments, constructed \in BOOLEAN :
          InitializeClients(env, constructed)

SpecClients == InitClients /\ [][NextClients]_vars

----------------------------------------------------------------------------
(* Properties of the singletons, checked under SpecClients.                 *)

\* C39: an instance, once created, is never replaced; an initialize call
\* made while the instance exists throws, a getter throws while there is
\* no instance and returns the instance otherwise, and initializeClients
\* never throws the already-initialized error and keeps existing instances.
C39_WriteOnceSingletons ==
    [][/\ IsSome(clients.usdaClientInstance)
            => clients'.usdaClientInstance = clients.usdaClientInstance
       /\ IsSome(clients.llmClientInstance)
            => clients'.llmClientInstance = clients.llmClientInstance
       /\ (clients'.call = "initializeUSDAClient"
              /\ IsSome(clients.usdaClientInstance))
            => clients'.threw = Some(AlreadyInitialized)
       /\ (clients'.call = "initializeLLMClient"
              /\ IsSome(clients.llmClientInstance))
            => clients'.threw = Some(AlreadyInitialized)
       /\ clients'.call = "getUSDAClient" =>
            IF IsSome(clients.usdaClientInstance)
            THEN clients'.threw = None
                   /\ clients'.ret = clients.usdaClientInstance
            ELSE clients'.threw = Some(NotInitialized) /\ clients'.ret = None
       /\ clients'.call = "getLLMClient" =>
            IF IsSome(clients.llmClientInstance)
            THEN clients'.threw = None
                   /\ clients'.ret = clients.llmClientInstance
            ELSE clients'.threw = Some(NotInitialized) /\ clients'.ret = None
       /\ clients'.call = "initializeClients" =>
            clients'.threw # Some(AlreadyInitialized)
      ]_vars

\* initializeClients has run with another key than the one the existing
\* USDA client was created with, without error: both clients are the ones
\* created first.
C39_Witness ==
    /\ clients.call = "initializeClients"
    /\ clients.threw = None
    /\ clients.arg[1].USDA_API_KEY = Some("k2")
    /\ clients.usdaClientInstance = Some([serial |-> 1, given |-> "k1"])
    /\ IsSome(clients.llmClientInstance)
    /\ clients.llmClientInstance[1].serial = 2
    /\ clients.llmClientInstance[1].given.provider # "gemini"
    /\ IsSome(clients.arg[1].GEMINI_API_KEY)
    /\ ~IsSome(clients.arg[1].LLM_PROVIDER)

====
